---- MODULE Spec2Model ----
(***************************************************************************)
(* Model of the MyMCP tool server: the registration bootstrap              *)
(* (src/tools/index.ts), the process lifecycle (src/index.ts), the         *)
(* dispatch of one named tool call and the handlers of the registered      *)
(* tools.                                                                  *)
(*                                                                         *)
(* Values that cross the wire are tagged records [t, v] so that a string,  *)
(* a number and a boolean can live in one mapping.                         *)
(***************************************************************************)
EXTENDS Integers, Sequences, FiniteSets, TLC

VARIABLES
  phase,        \* process: "boot" | "listening" | "exited"
  imports,      \* what each import of tools/index.ts evaluates to
  bootIdx,      \* forEach position inside registryTools
  bootDone,     \* registryTools has returned
  called,       \* how often each entry of allToolFunctions was invoked
  diagnostics,  \* number of console.error lines written by registryTools
  registry,     \* tool name -> registering definition (NoDef when absent)
  regLog,       \* history of register calls <<name, def>>
  inv,          \* the invocation: dispatch state, promise, delivered Outcomes
  exitCode,     \* status of process.exit, -1 while running
  \* watch-file-changes
  activeWatchers, \* normalized path -> id of the stored FSWatcher, 0 when absent
  fsWatchers,     \* every FSWatcher made by fs.watch: its path and state
  watchCalls,     \* the watch-file-changes invocations in flight
  \* withTimeout
  timed,          \* one invocation of a tool that races its work against a timer
  clock,          \* seconds since that invocation called withTimeout
  \* process lifecycle of index.ts
  proc,           \* handlers installed, requests served, faults raised
  \* start_server.sh
  script,         \* files, processes and shell variables of the start script
  \* time limits
  limits,         \* environment, one call and the time limit applied to it
  \* copy-files and move-files
  files,          \* path -> content of the file there, 0 when nothing is there
  copyCalls,      \* the copy-files and move-files invocations in flight
  \* write-file
  wfile,          \* the file written to, and the write-file invocation
  \* code-suggestions
  sugg,           \* the directory analysed and the answer of code-suggestions
  \* todo-list-tool
  todo,           \* todo-list.json and the todo-list-tool invocations in flight
  \* query-sqlite and knowledge-base-manager
  conn,           \* the database connection of one invocation
  \* delete-dir
  ddir            \* the directory and the invocations that act on it

serverVars == <<phase, imports, bootIdx, bootDone, called, diagnostics, registry,
                regLog, inv, exitCode>>

watchVars == <<activeWatchers, fsWatchers, watchCalls>>

timeoutVars == <<timed, clock>>

\* the state outside the dispatch of the server process
procVars == <<proc>>

scriptVars == <<script>>

limitVars == <<limits>>

\* the state of the parts modelled further down
copyVars == <<files, copyCalls>>

lateVars == <<wfile, sugg, todo, conn, ddir>>

moreVars == <<limitVars, copyVars, lateVars>>

aux == <<watchVars, timeoutVars, procVars, scriptVars, moreVars>>

vars == <<serverVars, aux>>

notWatch == <<serverVars, timeoutVars, procVars, scriptVars, moreVars>>

notTimeout == <<serverVars, watchVars, procVars, scriptVars, moreVars>>

notScript == <<serverVars, watchVars, timeoutVars, procVars, moreVars>>

notLimits == <<serverVars, watchVars, timeoutVars, procVars, scriptVars, copyVars,
               lateVars>>

notCopy == <<serverVars, watchVars, timeoutVars, procVars, scriptVars, limitVars,
             lateVars>>

earlyVars == <<serverVars, watchVars, timeoutVars, procVars, scriptVars, limitVars,
               copyVars>>

notWfile == <<earlyVars, sugg, todo, conn, ddir>>

notSugg == <<earlyVars, wfile, todo, conn, ddir>>

notTodo == <<earlyVars, wfile, sugg, conn, ddir>>

notConn == <<earlyVars, wfile, sugg, todo, ddir>>

notDdir == <<earlyVars, wfile, sugg, todo, conn>>

WatchIdle ==
  /\ activeWatchers = << >>
  /\ fsWatchers = << >>
  /\ watchCalls = << >>

\* a server that has booted and listens, no call dispatched
ServerIdle ==
  /\ phase = "listening"
  /\ imports = << >>
  /\ bootIdx = 1
  /\ bootDone = TRUE
  /\ called = << >>
  /\ diagnostics = 0
  /\ registry = << >>
  /\ regLog = << >>
  /\ inv = << >>
  /\ exitCode = -1

TimeoutIdle ==
  /\ timed = << >>
  /\ clock = 0

ProcIdle == proc = << >>

ScriptIdle == script = << >>

LimitsIdle == limits = << >>

CopyIdle ==
  /\ files = << >>
  /\ copyCalls = << >>

WfileIdle == wfile = << >>

SuggIdle == sugg = << >>

TodoIdle == todo = << >>

ConnIdle == conn = << >>

DdirIdle == ddir = << >>

LateIdle == WfileIdle /\ SuggIdle /\ TodoIdle /\ ConnIdle /\ DdirIdle

MoreIdle == LimitsIdle /\ CopyIdle /\ LateIdle

AuxIdle == WatchIdle /\ TimeoutIdle /\ ProcIdle /\ ScriptIdle /\ MoreIdle

\* everything but the parts modelled last is at rest
EarlyIdle ==
  /\ ServerIdle
  /\ WatchIdle /\ TimeoutIdle /\ ProcIdle /\ ScriptIdle /\ LimitsIdle /\ CopyIdle

(***************************************************************************)
(* Bounds: MaxBad imports that are not a well-behaved function, MaxRegs    *)
(* register calls in the registry-only specification.                      *)
(***************************************************************************)
MaxBad == 2
MaxRegs == 3

(***************************************************************************)
(* Tools                                                                   *)
(***************************************************************************)
NoDef == "none"

\* the modelled part of the import list, in the order of the array
allToolFunctions ==
  << "registerMonitorResourcesTool", "registerMemoryManagementTool",
     "systemControl", "createDir",
     "lintFiles", "executeSqlQuery", "querySqlite", "compressFiles",
     "todoListTool", "registerExecuteCommandTool", "registerQuranBrowser" >>

NumEntries == Len(allToolFunctions)

\* the name each registration function passes to server.registerTool
ToolOf(fn) ==
  CASE fn = "registerMemoryManagementTool" -> "memory-management"
    [] fn = "systemControl"                -> "system-control"
    [] fn = "createDir"                    -> "create-dir"
    [] fn = "lintFiles"                    -> "lint-files"
    [] fn = "executeSqlQuery"              -> "execute-sql-query"
    [] fn = "querySqlite"                  -> "query-sqlite"
    [] fn = "compressFiles"                -> "compress-files"
    [] fn = "todoListTool"                 -> "todo-list-tool"
    [] fn = "registerExecuteCommandTool"   -> "execute-command-advanced"
    [] fn = "registerMonitorResourcesTool" -> "monitor-resources"
    [] fn = "registerQuranBrowser"         -> "quran-browser"

ToolNames == { ToolOf(allToolFunctions[k]) : k \in 1..NumEntries }

UnknownNames == { "does-not-exist" }

Names == ToolNames \cup UnknownNames

Defs == { allToolFunctions[k] : k \in 1..NumEntries }

\* typeof registryFn of an import
ImportKinds == { "function", "undefined", "throwing" }

(***************************************************************************)
(* Wire values and schemas (the zod shapes passed as inputSchema)          *)
(***************************************************************************)
Str(x) == [t |-> "string", v |-> x]
Num(x) == [t |-> "number", v |-> x]
Bool(x) == [t |-> "boolean", v |-> x]
None == [t |-> "none", v |-> ""]

\* z.string(), z.number(), z.boolean(), z.enum([...]) : a required field
Field(n, ty) ==
  [name |-> n, type |-> ty, required |-> TRUE, default |-> None,
   int |-> FALSE, hasMin |-> FALSE, min |-> 0, hasMax |-> FALSE, max |-> 0,
   members |-> {}]
Enum(n, ms) == [Field(n, "string") EXCEPT !.members = ms]
\* .optional()
Optional(f) == [f EXCEPT !.required = FALSE]
\* .optional().default(d)
Default(f, d) == [f EXCEPT !.required = FALSE, !.default = d]
\* .int().min(m)
IntMin(f, m) == [f EXCEPT !.int = TRUE, !.hasMin = TRUE, !.min = m]
\* .min(m)
Min(f, m) == [f EXCEPT !.hasMin = TRUE, !.min = m]
\* .max(m)
Max(f, m) == [f EXCEPT !.hasMax = TRUE, !.max = m]

createDirSchema ==
  << Field("dirPath", "string"), Optional(Field("timeout", "number")) >>

todoListSchema ==
  << Field("operation", "string"),
     Optional(Field("project_name", "string")),
     Optional(Field("task", "string")),
     Optional(Field("task_id", "string")),
     Optional(Field("priority", "string")),
     Optional(Field("due_date", "string")) >>

executeCommandSchema ==
  << Field("command", "string"),
     Optional(Field("stdin_data", "string")),
     Optional(IntMin(Field("timeout", "number"), 0)),
     Default(Field("waitForCompletion", "boolean"), Bool(TRUE)),
     Optional(Field("working_directory", "string")),
     Optional(Field("env_vars", "string")),
     Default(Field("capture_output", "boolean"), Bool(TRUE)) >>

executeSqlSchema ==
  << Field("database_connection_string", "string"), Field("query", "string") >>

memoryManagementSchema ==
  << Enum("action", {"info", "clear_cache", "free_memory", "monitor", "optimize"}),
     Optional(Enum("target", {"page_cache", "swap", "slab", "all", "processes"})),
     Default(Field("interval", "number"), Num(5)),
     Default(Field("duration", "number"), Num(30)) >>

compressFilesSchema ==
  << Field("source_paths", "string"),
     Field("destination_path", "string"),
     Field("operation", "string"),
     Optional(Field("format", "string")),
     Optional(Field("compression_level", "string")),
     Optional(Field("password", "string")),
     Optional(Field("exclude_patterns", "string")),
     Optional(Field("encoding", "string")) >>

querySqliteSchema ==
  << Field("database_path", "string"),
     Field("operation", "string"),
     Optional(Field("query", "string")),
     Optional(Field("table_name", "string")),
     Optional(Field("csv_path", "string")),
     Optional(Field("backup_path", "string")) >>

lintFilesSchema ==
  << Field("files", "string"),
     Optional(Field("config_path", "string")),
     Default(Field("fix", "boolean"), Bool(FALSE)),
     Default(Enum("output_format", {"text", "json"}), Str("text")) >>

systemControlSchema ==
  << Enum("action", {"notify", "shutdown", "restart", "open_app", "close_app",
                     "close_app_by_pid", "list_open_apps"}),
     Optional(Field("payload", "string")) >>

monitorResourcesSchema ==
  << Default(Enum("detail_level", {"basic", "detailed"}), Str("basic")),
     Default(Field("include_processes", "boolean"), Bool(FALSE)),
     Default(Max(Min(Field("max_processes", "number"), 1), 20), Num(10)) >>

quranBrowserSchema ==
  << Enum("action", {"list_surahs", "get_surah", "get_page", "search", "get_verse"}),
     Optional(Max(IntMin(Field("surah_number", "number"), 1), 114)),
     Optional(IntMin(Field("ayah_number", "number"), 1)),
     Optional(IntMin(Field("page_number", "number"), 1)),
     Optional(Field("query", "string")),
     Default(Max(IntMin(Field("limit", "number"), 1), 100), Num(10)),
     Default(IntMin(Field("offset", "number"), 0), Num(0)) >>

\* the inputSchema a registration function binds to its tool
SchemaOf(def) ==
  CASE def = "registerMemoryManagementTool" -> memoryManagementSchema
    [] def = "systemControl"                -> systemControlSchema
    [] def = "createDir"                    -> createDirSchema
    [] def = "lintFiles"                    -> lintFilesSchema
    [] def = "executeSqlQuery"              -> executeSqlSchema
    [] def = "querySqlite"                  -> querySqliteSchema
    [] def = "compressFiles"                -> compressFilesSchema
    [] def = "todoListTool"                 -> todoListSchema
    [] def = "registerExecuteCommandTool"   -> executeCommandSchema
    [] def = "registerMonitorResourcesTool" -> monitorResourcesSchema
    [] def = "registerQuranBrowser"         -> quranBrowserSchema

(***************************************************************************)
(* Schema validation of one call's raw arguments.  A field that is present *)
(* must have the declared type, be a declared member of an enum and lie    *)
(* inside a declared range; an absent field takes its default, and fails   *)
(* when it is required.  Validation stops at the first violation.          *)
(* Undeclared fields pass through.                                         *)
(***************************************************************************)
Has(m, f) == f \in DOMAIN m

Failure(f, why, raw) == [ok |-> FALSE, field |-> f, reason |-> why, args |-> raw]

CheckFieldExclusive(f, v) ==
  IF v.t # f.type THEN "wrong type"
  ELSE IF f.members # {} /\ v.v \notin f.members THEN "not a member of the enum"
  ELSE IF f.type = "number" /\ f.hasMin /\ v.v <= f.min THEN "below the minimum"
  ELSE IF f.type = "number" /\ f.hasMax /\ v.v >= f.max THEN "above the maximum"
  ELSE "ok"

CheckField(f, v) ==
  IF v.t # f.type THEN "wrong type"
  ELSE IF f.members # {} /\ v.v \notin f.members THEN "not a member of the enum"
  ELSE IF f.type = "number" /\ f.hasMin /\ v.v < f.min THEN "below the minimum"
  ELSE IF f.type = "number" /\ f.hasMax /\ v.v > f.max THEN "above the maximum"
  ELSE "ok"

SubstituteNothing(acc, f) == acc

\* if absent and a default exists, substitute the default
Substitute(acc, f) == acc @@ (f.name :> f.default)

RECURSIVE ValidateFrom(_, _, _, _)
ValidateFrom(schema, raw, k, acc) ==
  IF k > Len(schema) THEN [ok |-> TRUE, field |-> "", reason |-> "", args |-> acc]
  ELSE LET f == schema[k] IN
       IF Has(raw, f.name)
       THEN LET why == CheckField(f, raw[f.name]) IN
            IF why = "ok" THEN ValidateFrom(schema, raw, k + 1, acc)
            ELSE Failure(f.name, why, raw)
       ELSE IF f.default # None
            THEN ValidateFrom(schema, raw, k + 1, Substitute(acc, f))
            ELSE IF f.required
                 THEN Failure(f.name, "missing required field", raw)
                 ELSE ValidateFrom(schema, raw, k + 1, acc)

ValidateSkipping(schema, raw) ==
  [ok |-> TRUE, field |-> "", reason |-> "", args |-> raw]

Validate(schema, raw) == ValidateFrom(schema, raw, 1, raw)

\* whether a mapping satisfies a schema: what a handler may assume
Conforms(schema, args) ==
  \A k \in 1..Len(schema) :
    LET f == schema[k] IN
    IF Has(args, f.name) THEN CheckField(f, args[f.name]) = "ok"
    ELSE ~f.required /\ f.default = None

(***************************************************************************)
(* The raw argument mappings a caller sends, per requested name            *)
(***************************************************************************)
NoArgs == << >>

RawArgs(name) ==
  CASE name = "create-dir" ->
         { NoArgs, [dirPath |-> Str("d")], [dirPath |-> Str("")],
           [dirPath |-> Num(1)],
           [dirPath |-> Str("d"), timeout |-> Num(5)],
           [dirPath |-> Str("d"), timeout |-> Str("x")],
           [dirPath |-> Str("d"), extra |-> Str("x")] }
    [] name = "todo-list-tool" ->
         { NoArgs, [operation |-> Bool(TRUE)] }
         \cup { [operation |-> Str(op)] :
                  op \in {"create_project", "list_projects", "bogus"} }
         \cup { [operation |-> Str(op), project_name |-> Str("p")] :
                  op \in {"create_project", "switch_project"} }
    [] name = "execute-command-advanced" ->
         { NoArgs, [command |-> Str("c")],
           [command |-> Str("c"), waitForCompletion |-> Bool(FALSE)],
           [command |-> Str("c"), timeout |-> Num(-1)],
           [command |-> Str("c"), timeout |-> Num(0)] }
    [] name = "execute-sql-query" ->
         { NoArgs, [database_connection_string |-> Str("db")],
           [database_connection_string |-> Str("db"), query |-> Str("q")] }
    [] name = "memory-management" ->
         { NoArgs }
         \cup { [action |-> Str(a)] :
                  a \in {"info", "clear_cache", "free_memory", "monitor",
                         "optimize", "bogus"} }
         \cup { [action |-> Str("clear_cache"), target |-> Str(g)] :
                  g \in {"page_cache", "processes", "bogus"} }
    [] name = "compress-files" ->
         { NoArgs, [source_paths |-> Str("a"), operation |-> Str("compress")] }
         \cup { [source_paths |-> Str("a"), destination_path |-> Str("o.zip"),
                 operation |-> Str(op)] :
                  op \in {"compress", "decompress", "info", "update", "test",
                          "encode", "bogus"} }
         \cup { [source_paths |-> Str(""), destination_path |-> Str(d),
                 operation |-> Str(op)] :
                  d \in {"o.tar", "o.bin"}, op \in {"compress", "decompress", "test"} }
         \cup { [source_paths |-> Str("a"), destination_path |-> Str("o.zip"),
                 operation |-> Str("compress"), format |-> Str(fm)] :
                  fm \in {"zip", "tar", "gzip", "bzip2", "rar"} }
    [] name = "query-sqlite" ->
         { NoArgs }
         \cup { [database_path |-> Str("db"), operation |-> Str(op)] :
                  op \in {"create_db", "execute_query", "get_schema", "backup",
                          "restore", "bogus"} }
         \cup { [database_path |-> Str("db"), operation |-> Str(op),
                 query |-> Str("q")] : op \in {"execute_query", "transaction"} }
         \cup { [database_path |-> Str("db"), operation |-> Str(op),
                 backup_path |-> Str("b")] : op \in {"backup", "restore"} }
    [] name = "lint-files" ->
         { NoArgs, [files |-> Str("f")], [files |-> Num(1)],
           [files |-> Str("f"), output_format |-> Str("json")],
           [files |-> Str("f"), output_format |-> Str("xml")],
           [files |-> Str("f"), fix |-> Bool(TRUE)] }
    [] name = "system-control" ->
         { NoArgs }
         \cup { [action |-> Str(a)] :
                  a \in {"notify", "shutdown", "restart", "open_app", "close_app",
                         "close_app_by_pid", "list_open_apps", "bogus"} }
         \cup { [action |-> Str(a), payload |-> Str(pl)] :
                  a \in {"open_app", "close_app_by_pid"}, pl \in {"app", "12"} }
    [] name = "monitor-resources" ->
         { NoArgs, [detail_level |-> Str("detailed")],
           [detail_level |-> Str("full")],
           [include_processes |-> Bool(TRUE)],
           [include_processes |-> Str("yes")] }
         \cup { [include_processes |-> Bool(TRUE), max_processes |-> Num(n)] :
                  n \in {0, 1, 2, 20, 21} }
    [] name = "quran-browser" ->
         { NoArgs, [action |-> Str("list_surahs")], [action |-> Str("bogus")],
           [action |-> Str("get_surah")], [action |-> Str("get_page")],
           [action |-> Str("search")],
           [action |-> Str("search"), query |-> Str("q")],
           [action |-> Str("get_page"), page_number |-> Num(0)],
           [action |-> Str("get_page"), page_number |-> Num(1)],
           [action |-> Str("get_verse"), surah_number |-> Num(1)],
           [action |-> Str("get_verse"), surah_number |-> Num(1),
            ayah_number |-> Num(1)] }
         \cup { [action |-> Str("get_surah"), surah_number |-> Num(n)] :
                  n \in {0, 1, 57, 114, 115} }
         \cup { [action |-> Str("list_surahs"), limit |-> Num(n)] :
                  n \in {0, 1, 100, 101} }
         \cup { [action |-> Str("list_surahs"), limit |-> Num(5), offset |-> Num(n)] :
                  n \in {-1, 0} }
    [] OTHER -> { NoArgs, [anything |-> Str("x")] }

(***************************************************************************)
(* Handlers.  A handler body maps its arguments and the results of its     *)
(* external calls (env) to what it hands back: a returned Outcome or a     *)
(* thrown error.  fault records what really happened, independently of the *)
(* isError flag the handler chose:                                         *)
(*   "none"        the operation was carried out                           *)
(*   "input"       the handler refused its input or found a precondition   *)
(*                 unmet                                                   *)
(*   "failed"      the underlying command or I/O call failed               *)
(*   "unsupported" the operation, format or platform is not implemented or *)
(*                 not recognised                                          *)
(***************************************************************************)
Return(isErr, txt, flt) ==
  [kind |-> "return", isError |-> isErr, text |-> txt, fault |-> flt]

Throw(msg) ==
  [kind |-> "throw", isError |-> FALSE, text |-> msg, fault |-> "failed"]

\* JavaScript truthiness of an optional string argument
Truthy(args, f) == Has(args, f) /\ args[f].v # ""

StrOr(args, f, dflt) == IF Has(args, f) THEN args[f].v ELSE dflt

Platforms == { "linux", "darwin", "win32", "aix" }

\* create-dir
createDirEnv == [platform : {"linux"}, io : {"exists", "ok", "fail", "timeout"}]

createDirHandler(args, env) ==
  IF ~Truthy(args, "dirPath")
  THEN Return(TRUE, "Error: dirPath is required for create-dir operation", "input")
  ELSE CASE env.io = "exists" -> Return(FALSE, "Directory already exists", "none")
         [] env.io = "ok" -> Return(FALSE, "Successfully created directory", "none")
         [] env.io = "timeout" -> Return(TRUE, "Error creating directory: timed out", "failed")
         [] OTHER -> Return(TRUE, "Error creating directory", "failed")

\* todo-list-tool: io is the fate of the file calls, data what the file holds
todoListEnv ==
  [platform : {"linux"}, io : {"ok", "readThrows", "writeThrows"},
   data : {"empty", "projectNotCurrent", "projectCurrent", "taskCurrent"}]

todoHasCurrent(env) == env.data \in {"projectCurrent", "taskCurrent"}

todoWrite(env, okText) ==
  IF env.io = "writeThrows"
  THEN Return(TRUE, "Error performing to-do list operation", "failed")
  ELSE Return(FALSE, okText, "none")

todoTryBody(args, env) ==
  LET op == args["operation"].v
      noProject == Return(TRUE, "Error: No project selected.", "input")
  IN
  CASE op = "create_project" ->
         IF ~Truthy(args, "project_name")
         THEN Return(TRUE, "Error: 'project_name' is required.", "input")
         ELSE IF env.data # "empty"
              THEN Return(TRUE, "Error: Project already exists.", "input")
              ELSE todoWrite(env, "Project created.")
    [] op = "add_task" ->
         IF ~todoHasCurrent(env) THEN noProject
         ELSE IF ~Truthy(args, "task")
              THEN Return(TRUE, "Error: 'task' is required.", "input")
              ELSE todoWrite(env, "Task added to project.")
    [] op = "remove_task" ->
         IF ~todoHasCurrent(env) THEN noProject
         ELSE IF ~Truthy(args, "task_id")
              THEN Return(TRUE, "Error: 'task_id' is required.", "input")
              ELSE todoWrite(env, "Task removed.")
    [] op = "list_tasks" ->
         IF ~todoHasCurrent(env) THEN noProject
         ELSE Return(FALSE, "tasks", "none")
    [] op = "complete_task" ->
         IF ~todoHasCurrent(env) THEN noProject
         ELSE IF ~Truthy(args, "task_id")
              THEN Return(TRUE, "Error: 'task_id' is required.", "input")
              ELSE IF env.data = "taskCurrent"
                   THEN todoWrite(env, "Task marked as completed.")
                   ELSE Return(TRUE, "Error: Task not found.", "input")
    [] op = "list_projects" -> Return(FALSE, "projects", "none")
    [] op = "switch_project" ->
         IF ~Truthy(args, "project_name")
         THEN Return(TRUE, "Error: 'project_name' is required.", "input")
         ELSE IF env.data = "empty"
              THEN Return(TRUE, "Error: Project not found.", "input")
              ELSE todoWrite(env, "Switched to project.")
    [] OTHER -> Return(TRUE, "Error: Unknown operation.", "unsupported")

\* readTodoData() is awaited before the try block is entered
todoListHandler(args, env) ==
  IF env.io = "readThrows"
  THEN Throw("Unexpected token in JSON")
  ELSE todoTryBody(args, env)

\* memory-management
memoryManagementEnv == [platform : Platforms, io : {"ok", "fail"}]

memoryManagementHandler(args, env) ==
  LET action == args["action"].v
      target == StrOr(args, "target", "all")
  IN
  CASE action = "info" -> Return(FALSE, "Memory Information", "none")
    [] action = "clear_cache" ->
         IF env.platform # "linux"
         THEN Return(TRUE, "Cache clearing is only supported on Linux systems.",
                     "unsupported")
         ELSE IF target \notin {"page_cache", "swap", "slab", "all"}
              THEN Return(TRUE, "Invalid target", "input")
              ELSE IF env.io = "fail"
                   THEN Return(FALSE, "Cache Clearing Failed", "failed")
                   ELSE Return(FALSE, "Cache Cleared", "none")
    [] action = "free_memory" ->
         IF env.platform # "linux"
         THEN Return(TRUE, "Memory freeing is only supported on Linux systems.",
                     "unsupported")
         ELSE IF env.io = "fail"
              THEN Return(FALSE, "Memory Free Failed", "failed")
              ELSE Return(FALSE, "Memory Freed", "none")
    [] action = "monitor" -> Return(FALSE, "Monitoring Results", "none")
    [] action = "optimize" ->
         IF env.platform = "linux" /\ env.io = "fail"
         THEN Return(FALSE, "Could not retrieve Linux optimization info.", "failed")
         ELSE Return(FALSE, "Memory Optimization", "none")
    [] OTHER -> Return(FALSE, "Memory Management", "unsupported")

\* system-control: executeSystemCommand, then the switch over the action
systemControlEnv ==
  [platform : Platforms, io : {"ok", "stderr", "stdoutAndStderr", "fail"}]

\* /^\d+$/ over the payloads the model sends
IsDigits(str) == str \in {"12"}

executeSystemCommand(env) ==
  CASE env.io = "fail" -> [success |-> FALSE, output |-> "Execution failed"]
    [] env.io = "stderr" -> [success |-> FALSE, output |-> "stderr"]
    [] env.io = "stdoutAndStderr" -> [success |-> TRUE, output |-> "Command executed."]
    [] OTHER -> [success |-> TRUE, output |-> "Command executed successfully."]

systemControlResult(args, env) ==
  LET action == args["action"].v
      run == executeSystemCommand(env)
      ran == [success |-> run.success, output |-> run.output,
              fault |-> IF run.success THEN "none" ELSE "failed"]
      no(txt, flt) == [success |-> FALSE, output |-> txt, fault |-> flt]
  IN
  CASE action \in {"shutdown", "restart"} -> ran
    [] action = "notify" ->
         IF env.platform \in {"darwin", "linux", "win32"} THEN ran
         ELSE no("Notifications not supported on this platform.", "unsupported")
    [] action \in {"open_app", "close_app"} ->
         IF ~Truthy(args, "payload")
         THEN no("App name payload is required for this action.", "input")
         ELSE IF env.platform \in {"darwin", "linux", "win32"} THEN ran
              ELSE no("App management not supported on this platform.", "unsupported")
    [] action = "close_app_by_pid" ->
         IF ~Truthy(args, "payload") \/ ~IsDigits(StrOr(args, "payload", ""))
         THEN no("A valid numeric PID payload is required.", "input")
         ELSE ran
    [] action = "list_open_apps" ->
         IF env.platform \in {"darwin", "win32"} THEN ran
         ELSE no("Listing GUI apps is not reliably supported on Linux.", "unsupported")
    [] OTHER -> no("Unknown action", "unsupported")

systemControlHandler(args, env) ==
  LET result == systemControlResult(args, env)
  IN Return(~result.success, result.output, result.fault)

\* lint-files: io is how the eslint subprocess ended
lintFilesEnv == [platform : {"linux"}, io : {"ok", "stderr", "issues", "fail"}]

lintFilesHandler(args, env) ==
  CASE env.io = "stderr" -> Return(FALSE, "Linter completed with warnings", "none")
    [] env.io = "ok" -> Return(FALSE, "No linting issues found.", "none")
    [] env.io = "issues" -> Return(TRUE, "Linter found issues", "failed")
    [] OTHER -> Return(TRUE, "Error executing linter", "failed")

\* compress-files: io is the fate of the archive library and file calls,
\* found whether fs.pathExists answers true
\* mkdir the fate of the leading fs.ensureDir
compressFilesEnv ==
  [platform : {"linux"}, io : {"ok", "fail"}, found : BOOLEAN,
   mkdir : {"ok", "fail"}]

\* destination_path.endsWith over the paths the model sends
EndsWith(pathName, suffix) ==
  \/ pathName = "o.zip" /\ suffix = ".zip"
  \/ pathName = "o.tar" /\ suffix \in {".tar"}

compressFilesSwitch(args, env) ==
  LET operation == args["operation"].v
      format == StrOr(args, "format", "zip")
      dest == args["destination_path"].v
      sources == IF args["source_paths"].v = "" THEN << >> ELSE << args["source_paths"].v >>
      done(txt) ==
        IF env.io = "fail"
        THEN Return(TRUE, "Error performing compression operation", "failed")
        ELSE Return(FALSE, txt, "none")
      notFound == Return(TRUE, "Error: Archive file not found", "input")
      isTar == EndsWith(dest, ".tar") \/ EndsWith(dest, ".tgz") \/ EndsWith(dest, ".tar.gz")
  IN
  CASE operation = "compress" ->
         IF Len(sources) = 0
         THEN Return(TRUE, "Error: At least one source path is required for compression.",
                     "input")
         ELSE IF ~env.found
              THEN Return(TRUE, "Error: Source path not found", "input")
              ELSE IF format \in {"zip", "tar", "gzip", "bzip2"}
                   THEN done("Files compressed successfully")
                   ELSE Return(FALSE, "Operation completed successfully.", "unsupported")
    [] operation = "decompress" ->
         IF ~env.found THEN notFound
         ELSE IF EndsWith(dest, ".zip") \/ isTar
              THEN done("archive decompressed successfully")
              ELSE Return(TRUE, "Error: Unsupported archive format for decompression.",
                          "unsupported")
    [] operation = "info" ->
         IF ~env.found THEN notFound ELSE done("archive info")
    [] operation = "update" ->
         Return(TRUE, "Update operation is not implemented in this version.",
                "unsupported")
    [] operation = "test" ->
         IF ~env.found THEN notFound
         ELSE IF EndsWith(dest, ".zip") \/ isTar
              THEN IF env.io = "fail"
                   THEN Return(TRUE, "Archive integrity test failed", "failed")
                   ELSE Return(FALSE, "archive integrity test passed.", "none")
              ELSE Return(TRUE, "Error: Unsupported archive format for testing.",
                          "unsupported")
    [] operation = "encode" ->
         Return(TRUE, "Encoding operation is not implemented in this version.",
                "unsupported")
    [] OTHER -> Return(FALSE, "Operation completed successfully.", "unsupported")

compressFilesHandler(args, env) ==
  IF env.mkdir = "fail"
  THEN Return(TRUE, "Error performing compression operation", "failed")
  ELSE compressFilesSwitch(args, env)

\* query-sqlite: io is the fate of the statement or file call of the
\* operation, reclose what db.close answers on a connection that the
\* operation has already closed
querySqliteEnv ==
  [platform : {"linux"}, io : {"ok", "fail"}, found : BOOLEAN,
   reclose : {"ok", "fail"}, mkdir : {"ok", "fail"}]

querySqliteCaught == Return(TRUE, "Error performing SQLite operation", "failed")

querySqliteSwitch(args, env) ==
  LET operation == args["operation"].v
      missing(txt) == Return(TRUE, txt, "input")
      \* the statement, then the closing dbClose and the final return
      finish(txt) == IF env.io = "fail" THEN querySqliteCaught
                     ELSE Return(FALSE, txt, "none")
      \* the operation closed the connection itself before the closing dbClose
      finishClosed(txt) ==
        IF env.io = "fail" THEN querySqliteCaught
        ELSE IF env.reclose = "fail"
             THEN Return(TRUE, "Error performing SQLite operation", "none")
             ELSE Return(FALSE, txt, "none")
  IN
  CASE operation = "create_db" -> Return(FALSE, "SQLite database created", "none")
    [] operation = "execute_query" ->
         IF ~Truthy(args, "query")
         THEN missing("Error: 'query' parameter is required for execute_query operation.")
         ELSE finish("Query executed successfully.")
    [] operation = "import_csv" ->
         IF ~Truthy(args, "csv_path")
         THEN missing("Error: 'csv_path' parameter is required for import_csv operation.")
         ELSE IF ~env.found THEN missing("Error: CSV file not found")
              ELSE finish("CSV data imported successfully")
    [] operation = "export_csv" ->
         IF ~Truthy(args, "table_name") \/ ~Truthy(args, "csv_path")
         THEN missing("Error: 'table_name' and 'csv_path' parameters are required for export_csv operation.")
         ELSE IF ~env.found THEN missing("Table is empty or does not exist.")
              ELSE finish("Table exported successfully")
    [] operation = "get_schema" -> finish("schema")
    [] operation = "drop_table" ->
         IF ~Truthy(args, "table_name")
         THEN missing("Error: 'table_name' parameter is required for drop_table operation.")
         ELSE finish("Table dropped successfully")
    [] operation = "backup" ->
         IF ~Truthy(args, "backup_path")
         THEN missing("Error: 'backup_path' parameter is required for backup operation.")
         ELSE finishClosed("Database backed up successfully")
    [] operation = "restore" ->
         IF ~Truthy(args, "backup_path")
         THEN missing("Error: 'backup_path' parameter is required for restore operation.")
         ELSE finishClosed("Database restored successfully")
    [] operation = "transaction" ->
         IF ~Truthy(args, "query")
         THEN missing("Error: 'query' parameter is required for transaction operation.")
         ELSE finish("Transaction executed successfully")
    [] operation = "get_stats" -> finish("stats")
    [] OTHER -> Return(FALSE, "", "unsupported")

querySqliteHandler(args, env) ==
  IF env.mkdir = "fail" THEN querySqliteCaught ELSE querySqliteSwitch(args, env)

\* monitor-resources: the handler destructures with the schema's defaults;
\* a failing df or ps is swallowed by the inner try blocks
monitorResourcesEnv == [platform : {"linux", "win32"}, exec : {"ok", "fail"}]

monitorResourcesHandler(args, env) ==
  LET include_processes ==
        IF Has(args, "include_processes") THEN args["include_processes"].v ELSE FALSE
  IN
  IF ~include_processes
  THEN Return(FALSE, StrOr(args, "detail_level", "basic"), "none")
  ELSE IF env.exec = "fail"
       THEN Return(FALSE, "Process Information (Unavailable)", "none")
       ELSE Return(FALSE, "Top Processes by CPU Usage", "none")

\* quran-browser: db is what queryDatabase yields; every throw of the switch
\* and of the query helpers lands in the handler's catch
NumTruthy(args, f) == Has(args, f) /\ args[f].v # 0

quranBrowserEnv == [platform : {"linux"}, db : {"rows", "empty", "fail"}]

quranBrowserHandler(args, env) ==
  LET action == args["action"].v
      required(msg) == Return(TRUE, msg, "input")
      query(found, notFound) ==
        CASE env.db = "fail" -> Return(TRUE, "Error: Failed to open database", "failed")
          [] env.db = "empty" /\ notFound # "" -> Return(TRUE, notFound, "input")
          [] OTHER -> Return(FALSE, found, "none")
  IN
  CASE action = "list_surahs" -> query("surahs", "")
    [] action = "get_surah" ->
         IF ~NumTruthy(args, "surah_number")
         THEN required("Error: Surah number is required")
         ELSE query("surah", "Error: Surah not found")
    [] action = "get_page" ->
         IF ~NumTruthy(args, "page_number")
         THEN required("Error: Page number is required")
         ELSE query("page", "Error: Page not found or has no verses")
    [] action = "search" ->
         IF ~Truthy(args, "query")
         THEN required("Error: Search query is required")
         ELSE query("results", "")
    [] action = "get_verse" ->
         IF ~NumTruthy(args, "surah_number") \/ ~NumTruthy(args, "ayah_number")
         THEN required("Error: Both surah_number and ayah_number are required")
         ELSE query("verse", "Error: Verse not found")
    [] OTHER -> Return(TRUE, "Error: Invalid action", "input")

(***************************************************************************)
(* Handlers that answer from event callbacks.  The handler returns         *)
(* new Promise((resolve) => ...) and every callback calls resolve.         *)
(***************************************************************************)
\* execute-command-advanced with waitForCompletion false: spawn, unref, return
executeCommandBackground ==
  Return(FALSE, "Command started in background", "none")

\* child.on('close', (code) => ...): code 0, a non-zero code, or null (killed)
ExitCodes == { "0", "1", "null" }

executeCommandOnClose(code) ==
  IF code = "0"
  THEN Return(FALSE, "Command executed successfully", "none")
  ELSE Return(TRUE, "Command failed with exit code", "failed")

\* child.on('error', (err) => ...)
executeCommandOnError == Return(TRUE, "Failed to start command", "failed")

\* execute-sql-query: the callback of new sqlite3.Database resolves on err only
executeSqlOnOpenError == Return(TRUE, "Error connecting to database", "failed")

\* execute-sql-query: the callback of db.all
executeSqlOnAll(err) ==
  IF err THEN Return(TRUE, "Error executing query", "failed")
  ELSE Return(FALSE, "rows", "none")

\* the handlers that run to their return between two suspension points
AtomicDefs ==
  { "registerMemoryManagementTool", "systemControl", "createDir", "lintFiles",
    "querySqlite", "compressFiles", "todoListTool",
    "registerMonitorResourcesTool", "registerQuranBrowser" }

EnvOf(def) ==
  CASE def = "registerMemoryManagementTool" -> memoryManagementEnv
    [] def = "systemControl"                -> systemControlEnv
    [] def = "createDir"                    -> createDirEnv
    [] def = "lintFiles"                    -> lintFilesEnv
    [] def = "querySqlite"                  -> querySqliteEnv
    [] def = "compressFiles"                -> compressFilesEnv
    [] def = "todoListTool"                 -> todoListEnv
    [] def = "registerMonitorResourcesTool" -> monitorResourcesEnv
    [] def = "registerQuranBrowser"         -> quranBrowserEnv

\* the handler a registration function binds to its tool
HandlerOf(def, args, env) ==
  CASE def = "registerMemoryManagementTool" -> memoryManagementHandler(args, env)
    [] def = "systemControl"                -> systemControlHandler(args, env)
    [] def = "createDir"                    -> createDirHandler(args, env)
    [] def = "lintFiles"                    -> lintFilesHandler(args, env)
    [] def = "querySqlite"                  -> querySqliteHandler(args, env)
    [] def = "compressFiles"                -> compressFilesHandler(args, env)
    [] def = "todoListTool"                 -> todoListHandler(args, env)
    [] def = "registerMonitorResourcesTool" -> monitorResourcesHandler(args, env)
    [] def = "registerQuranBrowser"         -> quranBrowserHandler(args, env)

(***************************************************************************)
(* Promises: the first settlement wins and queues the one reaction job of  *)
(* the awaiting caller; later resolve calls change nothing.                *)
(***************************************************************************)
Pending == [state |-> "pending", value |-> Return(FALSE, "", "none"), jobs |-> 0]

SettleEveryTime(p, r) ==
  [state |-> IF r.kind = "throw" THEN "rejected" ELSE "fulfilled",
   value |-> r, jobs |-> p.jobs + 1]

PromiseSettle(p, r) ==
  IF p.state = "pending"
  THEN [state |-> IF r.kind = "throw" THEN "rejected" ELSE "fulfilled",
        value |-> r, jobs |-> 1]
  ELSE p

(***************************************************************************)
(* Registry                                                                *)
(***************************************************************************)
EmptyRegistry == [n \in Names |-> NoDef]

RegisterKeepingFirst(reg, name, def) ==
  IF reg[name] # NoDef THEN reg ELSE [reg EXCEPT ![name] = def]

\* register(definition): insert or overwrite the entry of the name
Register(reg, name, def) == [reg EXCEPT ![name] = def]

Registered(reg) == { n \in Names : reg[n] # NoDef }

(***************************************************************************)
(* Outcomes as delivered to the caller; from tells who produced it         *)
(***************************************************************************)
UnknownToolOutcome(name) ==
  [isError |-> TRUE, text |-> "Tool not found", about |-> name, from |-> "dispatcher"]

ValidationOutcome(v) ==
  [isError |-> TRUE, text |-> v.reason, about |-> v.field, from |-> "dispatcher"]

FaultOutcome(r) ==
  [isError |-> TRUE, text |-> r.text, about |-> "", from |-> "dispatcher"]

HandlerOutcome(r) ==
  [isError |-> r.isError, text |-> r.text, about |-> "", from |-> "handler"]

IdleInv ==
  [pc |-> "idle", tool |-> "", def |-> NoDef, raw |-> NoArgs, args |-> NoArgs,
   entered |-> FALSE, promise |-> Pending, fired |-> {}, delivered |-> << >>]

(***************************************************************************)
(* Process start: registryTools(server) at module level, then main()       *)
(***************************************************************************)
BadImports(im) == { k \in 1..NumEntries : im[k] # "function" }

Init ==
  /\ phase = "boot"
  /\ imports \in { im \in [1..NumEntries -> ImportKinds] :
                     Cardinality(BadImports(im)) <= MaxBad }
  /\ bootIdx = 1
  /\ bootDone = FALSE
  /\ called = [k \in 1..NumEntries |-> 0]
  /\ diagnostics = 0
  /\ registry = EmptyRegistry
  /\ regLog = << >>
  /\ inv = IdleInv
  /\ exitCode = -1
  /\ AuxIdle

\* the forEach of registryTools is still running
InLoop == phase # "exited" /\ ~bootDone /\ bootIdx <= NumEntries

\* typeof registryFn === 'function': registryFn(server) registers its tool
BootCall ==
  /\ InLoop
  /\ imports[bootIdx] = "function"
  /\ LET fn == allToolFunctions[bootIdx] IN
       /\ registry' = Register(registry, ToolOf(fn), fn)
       /\ regLog' = Append(regLog, <<ToolOf(fn), fn>>)
  /\ called' = [called EXCEPT ![bootIdx] = @ + 1]
  /\ bootIdx' = bootIdx + 1
  /\ UNCHANGED <<phase, imports, bootDone, diagnostics, inv, exitCode, aux>>

BootSkipSilently ==
  /\ InLoop
  /\ imports[bootIdx] = "undefined"
  /\ bootIdx' = bootIdx + 1
  /\ UNCHANGED <<phase, imports, bootDone, called, diagnostics, registry, regLog,
                 inv, exitCode, aux>>

\* the else branch: console.error('An imported tool is not a function:')
BootSkip ==
  /\ InLoop
  /\ imports[bootIdx] = "undefined"
  /\ diagnostics' = diagnostics + 1
  /\ bootIdx' = bootIdx + 1
  /\ UNCHANGED <<phase, imports, bootDone, called, registry, regLog, inv, exitCode, aux>>

\* registryFn(server) raises: nothing in forEach, registryTools or the module
\* body of index.ts catches it, so the process ends with status 1
BootThrow ==
  /\ InLoop
  /\ imports[bootIdx] = "throwing"
  /\ called' = [called EXCEPT ![bootIdx] = @ + 1]
  /\ phase' = "exited"
  /\ exitCode' = 1
  /\ UNCHANGED <<imports, bootIdx, bootDone, diagnostics, registry, regLog, inv, aux>>

\* the loop is over: console.log and return
BootReturn ==
  /\ phase # "exited" /\ ~bootDone /\ bootIdx > NumEntries
  /\ bootDone' = TRUE
  /\ UNCHANGED <<phase, imports, bootIdx, called, diagnostics, registry, regLog,
                 inv, exitCode, aux>>

ListenBeforeBootstrap == phase = "boot"

\* main() runs after registryTools(server) has returned
MayListen == phase = "boot" /\ bootDone

Listen ==
  /\ MayListen
  /\ phase' = "listening"
  /\ UNCHANGED <<imports, bootIdx, bootDone, called, diagnostics, registry, regLog,
                 inv, exitCode, aux>>

(***************************************************************************)
(* Dispatch of one named call                                              *)
(***************************************************************************)
boot == <<imports, bootIdx, bootDone, called, diagnostics, registry, regLog>>

LookupAny(reg, name) ==
  IF reg[name] # NoDef THEN reg[name] ELSE "createDir"

\* the registry entry of the requested name, NoDef when there is none
Lookup(reg, name) == reg[name]

ValidateFor(def, raw) == Validate(SchemaOf(def), raw)

\* RECEIVED -> UNRESOLVED | REJECTED | EXECUTING
Dispatch(name, raw) ==
  /\ phase = "listening"
  /\ inv.pc \in {"idle", "done"}
  /\ LET def == Lookup(registry, name)
         fresh == [IdleInv EXCEPT !.tool = name, !.raw = raw, !.def = def]
     IN
     IF def = NoDef
     THEN inv' = [fresh EXCEPT !.pc = "done",
                               !.delivered = << UnknownToolOutcome(name) >>]
     ELSE LET v == ValidateFor(def, raw) IN
          IF ~v.ok
          THEN inv' = [fresh EXCEPT !.pc = "done",
                                    !.delivered = << ValidationOutcome(v) >>]
          ELSE inv' = [fresh EXCEPT !.pc = "executing", !.args = v.args]
  /\ UNCHANGED <<phase, boot, exitCode, aux>>

\* the handler body of a tool that runs to its return
HandlerRun(env) ==
  /\ phase = "listening"
  /\ inv.pc = "executing" /\ ~inv.entered
  /\ inv.def \in AtomicDefs
  /\ env \in EnvOf(inv.def)
  /\ inv' = [inv EXCEPT !.entered = TRUE,
                        !.promise = PromiseSettle(@, HandlerOf(inv.def, inv.args, env))]
  /\ UNCHANGED <<phase, boot, exitCode, aux>>

\* execute-command-advanced up to its return: background start, or the
\* promise with the 'close' and 'error' listeners attached
ExecuteCommandStart ==
  /\ phase = "listening"
  /\ inv.pc = "executing" /\ ~inv.entered
  /\ inv.def = "registerExecuteCommandTool"
  /\ inv' = [inv EXCEPT !.entered = TRUE,
                        !.promise = IF inv.args["waitForCompletion"].v
                                    THEN @
                                    ELSE PromiseSettle(@, executeCommandBackground)]
  /\ UNCHANGED <<phase, boot, exitCode, aux>>

Waiting(def) ==
  /\ phase = "listening"
  /\ inv.def = def /\ inv.entered

ChildClose(code) ==
  /\ Waiting("registerExecuteCommandTool")
  /\ inv.args["waitForCompletion"].v
  /\ "close" \notin inv.fired
  /\ inv' = [inv EXCEPT !.fired = @ \cup {"close"},
                        !.promise = PromiseSettle(@, executeCommandOnClose(code))]
  /\ UNCHANGED <<phase, boot, exitCode, aux>>

ChildError ==
  /\ Waiting("registerExecuteCommandTool")
  /\ inv.args["waitForCompletion"].v
  /\ "error" \notin inv.fired
  /\ inv' = [inv EXCEPT !.fired = @ \cup {"error"},
                        !.promise = PromiseSettle(@, executeCommandOnError)]
  /\ UNCHANGED <<phase, boot, exitCode, aux>>

\* execute-sql-query up to its return: open, all and close are queued
ExecuteSqlStart ==
  /\ phase = "listening"
  /\ inv.pc = "executing" /\ ~inv.entered
  /\ inv.def = "executeSqlQuery"
  /\ inv' = [inv EXCEPT !.entered = TRUE]
  /\ UNCHANGED <<phase, boot, exitCode, aux>>

\* the callback of new sqlite3.Database
DbOpened(err) ==
  /\ Waiting("executeSqlQuery")
  /\ inv.fired = {}
  /\ inv' = [inv EXCEPT !.fired = IF err THEN {"open", "openError"} ELSE {"open"},
                        !.promise = IF err THEN PromiseSettle(@, executeSqlOnOpenError)
                                    ELSE @]
  /\ UNCHANGED <<phase, boot, exitCode, aux>>

\* the callback of db.all; on a database that failed to open it reports an error
DbAll(err) ==
  /\ Waiting("executeSqlQuery")
  /\ "open" \in inv.fired /\ "all" \notin inv.fired
  /\ "openError" \in inv.fired => err
  /\ inv' = [inv EXCEPT !.fired = @ \cup {"all"},
                        !.promise = PromiseSettle(@, executeSqlOnAll(err))]
  /\ UNCHANGED <<phase, boot, exitCode, aux>>

\* the callback of db.close only logs
DbClosed ==
  /\ Waiting("executeSqlQuery")
  /\ "all" \in inv.fired /\ "closed" \notin inv.fired
  /\ inv' = [inv EXCEPT !.fired = @ \cup {"closed"}]
  /\ UNCHANGED <<phase, boot, exitCode, aux>>

DispatcherLetsItEscape(r) == FALSE

\* the catch-all around the handler call
DispatcherCatches(r) == TRUE

\* the awaiting dispatcher resumes: the handler's Outcome, or the error
\* Outcome substituted for a thrown value; a rejection nobody handles ends
\* the process through process.on('unhandledRejection')
DispatcherResume ==
  /\ phase = "listening"
  /\ inv.promise.jobs > 0
  /\ LET r == inv.promise.value IN
     IF r.kind = "throw" /\ ~DispatcherCatches(r)
     THEN /\ phase' = "exited"
          /\ exitCode' = 1
          /\ inv' = [inv EXCEPT !.promise.jobs = @ - 1, !.pc = "done"]
     ELSE /\ inv' = [inv EXCEPT !.promise.jobs = @ - 1, !.pc = "done",
                                !.delivered = Append(@, IF r.kind = "throw"
                                                        THEN FaultOutcome(r)
                                                        ELSE HandlerOutcome(r))]
          /\ UNCHANGED <<phase, exitCode>>
  /\ UNCHANGED <<boot, aux>>

Next ==
  \/ BootCall
  \/ BootSkip
  \/ BootThrow
  \/ BootReturn
  \/ Listen
  \/ \E name \in Names : \E raw \in RawArgs(name) : Dispatch(name, raw)
  \/ \E env \in UNION { EnvOf(d) : d \in AtomicDefs } : HandlerRun(env)
  \/ ExecuteCommandStart
  \/ \E code \in ExitCodes : ChildClose(code)
  \/ ChildError
  \/ ExecuteSqlStart
  \/ \E err \in BOOLEAN : DbOpened(err)
  \/ \E err \in BOOLEAN : DbAll(err)
  \/ DbClosed
  \/ DispatcherResume

Spec == Init /\ [][Next]_vars

(***************************************************************************)
(* The registry alone: any sequence of register calls                      *)
(***************************************************************************)
RegNames == { "create-dir", "lint-files" }

RegDefs == { "createDir", "lintFiles", "systemControl" }

InitReg ==
  /\ phase = "boot"
  /\ imports = [k \in 1..NumEntries |-> "function"]
  /\ bootIdx = 1
  /\ bootDone = FALSE
  /\ called = [k \in 1..NumEntries |-> 0]
  /\ diagnostics = 0
  /\ registry = EmptyRegistry
  /\ regLog = << >>
  /\ inv = IdleInv
  /\ exitCode = -1
  /\ AuxIdle

RegisterCall(name, def) ==
  /\ Len(regLog) < MaxRegs
  /\ registry' = Register(registry, name, def)
  /\ regLog' = Append(regLog, <<name, def>>)
  /\ UNCHANGED <<phase, imports, bootIdx, bootDone, called, diagnostics, inv, exitCode, aux>>

NextReg == \E name \in RegNames : \E def \in RegDefs : RegisterCall(name, def)

SpecReg == InitReg /\ [][NextReg]_vars

(***************************************************************************)
(* watch-file-changes: the module-level map activeWatchers and the         *)
(* FSWatcher objects made by fs.watch.  The handler contains no await, so  *)
(* one call runs from its first line to its return without interruption;   *)
(* concurrent invocations are calls accepted together whose handlers run   *)
(* in any order.                                                           *)
(***************************************************************************)
MaxWatchers == 3

WatchSlots == { 1, 2 }

watchFileChangesSchema ==
  << Enum("action", {"start", "stop"}),
     Field("target_path", "string"),
     Optional(Field("command", "string")),
     Default(Field("recursive", "boolean"), Bool(FALSE)) >>

RawPaths == { "a", "./a", "b" }

\* path.resolve(target_path) with the working directory /cwd
Normalize(p) ==
  CASE p = "a"   -> "/cwd/a"
    [] p = "./a" -> "/cwd/a"
    [] p = "b"   -> "/cwd/b"

NormPaths == { Normalize(p) : p \in RawPaths }

WatchRaw ==
  { [action |-> Str(a), target_path |-> Str(p), command |-> Str("c")] :
      a \in {"start", "stop"}, p \in RawPaths }
  \cup { [action |-> Str("stop"), target_path |-> Str(p)] : p \in RawPaths }
  \cup { [action |-> Str("start"), target_path |-> Str("a")],
         [action |-> Str("pause"), target_path |-> Str("a")] }

\* fs.existsSync(normalizedPath), and whether fs.watch throws
watchEnv == [exists : BOOLEAN, watchThrows : BOOLEAN]

WatchResult(out, active, watchers, made) ==
  [out |-> out, active |-> active, watchers |-> watchers, made |-> made]

watchStartUnchecked(args, env, active, watchers) ==
  LET p == Normalize(args["target_path"].v)
      id == Len(watchers) + 1
  IN
  IF ~Truthy(args, "command")
  THEN WatchResult(Return(TRUE, "Error: A command must be provided to start watching.",
                          "input"), active, watchers, 0)
  ELSE IF ~env.exists
  THEN WatchResult(Return(TRUE, "Error: Path does not exist", "input"),
                   active, watchers, 0)
  ELSE IF env.watchThrows
  THEN WatchResult(Return(TRUE, "Failed to start watcher", "failed"),
                   active, watchers, 0)
  ELSE WatchResult(Return(FALSE, "Started watching for changes", "none"),
                   [active EXCEPT ![p] = id],
                   Append(watchers, [path |-> p, state |-> "open"]), id)

\* action === 'start'
watchStart(args, env, active, watchers) ==
  LET p == Normalize(args["target_path"].v)
      id == Len(watchers) + 1
  IN
  IF ~Truthy(args, "command")
  THEN WatchResult(Return(TRUE, "Error: A command must be provided to start watching.",
                          "input"), active, watchers, 0)
  ELSE IF active[p] # 0
  THEN WatchResult(Return(TRUE, "Already watching path", "input"),
                   active, watchers, 0)
  ELSE IF ~env.exists
  THEN WatchResult(Return(TRUE, "Error: Path does not exist", "input"),
                   active, watchers, 0)
  ELSE IF env.watchThrows
  THEN WatchResult(Return(TRUE, "Failed to start watcher", "failed"),
                   active, watchers, 0)
  ELSE WatchResult(Return(FALSE, "Started watching for changes", "none"),
                   [active EXCEPT ![p] = id],
                   Append(watchers, [path |-> p, state |-> "open"]), id)

watchStopForgets(args, active, watchers) ==
  LET p == Normalize(args["target_path"].v)
      id == active[p]
  IN
  IF id = 0
  THEN WatchResult(Return(TRUE, "No active watcher found for path", "input"),
                   active, watchers, 0)
  ELSE WatchResult(Return(FALSE, "Stopped watching for changes", "none"),
                   [active EXCEPT ![p] = 0], watchers, 0)

\* action === 'stop'
watchStop(args, active, watchers) ==
  LET p == Normalize(args["target_path"].v)
      id == active[p]
  IN
  IF id = 0
  THEN WatchResult(Return(TRUE, "No active watcher found for path", "input"),
                   active, watchers, 0)
  ELSE WatchResult(Return(FALSE, "Stopped watching for changes", "none"),
                   [active EXCEPT ![p] = 0],
                   [watchers EXCEPT ![id].state = "closed"], 0)

watchFileChangesHandler(args, env, active, watchers) ==
  CASE args["action"].v = "start" -> watchStart(args, env, active, watchers)
    [] args["action"].v = "stop" -> watchStop(args, active, watchers)
    [] OTHER -> WatchResult(Return(TRUE, "Invalid action specified.", "input"),
                            active, watchers, 0)

IdleWatchCall ==
  [pc |-> "idle", raw |-> NoArgs, args |-> NoArgs, had |-> FALSE, made |-> 0,
   out |-> Return(FALSE, "", "none")]

InitWatch ==
  /\ ServerIdle
  /\ TimeoutIdle
  /\ ProcIdle
  /\ ScriptIdle
  /\ MoreIdle
  /\ activeWatchers = [p \in NormPaths |-> 0]
  /\ fsWatchers = << >>
  /\ watchCalls = [c \in WatchSlots |-> IdleWatchCall]

WatchAccepted == { c \in WatchSlots : watchCalls[c].pc = "accepted" }

\* a call arrives and is validated against the schema
WatchRequest(c, raw) ==
  /\ watchCalls[c].pc \in {"idle", "done"}
  /\ Len(fsWatchers) + Cardinality(WatchAccepted) < MaxWatchers
  /\ LET v == Validate(watchFileChangesSchema, raw) IN
     watchCalls' = [watchCalls EXCEPT ![c] =
       IF v.ok
       THEN [IdleWatchCall EXCEPT !.pc = "accepted", !.raw = raw, !.args = v.args]
       ELSE [IdleWatchCall EXCEPT !.pc = "done", !.raw = raw,
                                  !.out = Return(TRUE, v.reason, "input")]]
  /\ UNCHANGED <<activeWatchers, fsWatchers, notWatch>>

\* the handler of an accepted call runs to its return
WatchHandler(c, env) ==
  /\ watchCalls[c].pc = "accepted"
  /\ LET args == watchCalls[c].args
         r == watchFileChangesHandler(args, env, activeWatchers, fsWatchers)
     IN
     /\ activeWatchers' = r.active
     /\ fsWatchers' = r.watchers
     /\ watchCalls' = [watchCalls EXCEPT ![c] =
          [@ EXCEPT !.pc = "done", !.out = r.out, !.made = r.made,
                    !.had = activeWatchers[Normalize(args["target_path"].v)] # 0]]
  /\ UNCHANGED notWatch

\* watcher.on('error'): the watcher is dead, the entry of its path is deleted
WatcherError(id) ==
  /\ id \in 1..Len(fsWatchers)
  /\ fsWatchers[id].state = "open"
  /\ fsWatchers' = [fsWatchers EXCEPT ![id].state = "failed"]
  /\ activeWatchers' = [activeWatchers EXCEPT ![fsWatchers[id].path] = 0]
  /\ UNCHANGED <<watchCalls, notWatch>>

NextWatch ==
  \/ \E c \in WatchSlots : \E raw \in WatchRaw : WatchRequest(c, raw)
  \/ \E c \in WatchSlots : \E env \in watchEnv : WatchHandler(c, env)
  \/ \E id \in 1..MaxWatchers : WatcherError(id)

SpecWatch == InitWatch /\ [][NextWatch]_vars

(***************************************************************************)
(* withTimeout (utils/timeout) and the three handlers that race their work *)
(* against it: create-dir, read-file and list-files.  The clock counts     *)
(* seconds from the call of withTimeout; setTimeout's callback runs when   *)
(* its delay has elapsed.                                                  *)
(***************************************************************************)
\* the default parameter values of normalizeTimeout
defaultTimeout == 120
maxTimeout == 600

MinOf(a, b) == IF a < b THEN a ELSE b
MaxOf(a, b) == IF a > b THEN a ELSE b

\* normalizeTimeout(timeout) as every handler calls it: milliseconds
normalizeTimeout(timeout) ==
  LET timeoutSeconds == IF timeout.t = "none" THEN defaultTimeout ELSE timeout.v
      clampedTimeout == MinOf(MaxOf(timeoutSeconds, 1), maxTimeout)
  IN clampedTimeout * 1000

TimedTools == { "create-dir", "read-file", "list-files" }

\* the timeout argument of a call: absent, or seconds
TimeoutArgs == { None, Num(-5), Num(0), Num(1), Num(2), Num(3), Num(700) }

\* the third argument the handler passes to withTimeout
timeoutMessage(tool, timeoutMs) ==
  [msg |-> CASE tool = "create-dir" -> "Directory creation operation timed out after"
             [] tool = "read-file"  -> "File reading operation timed out after"
             [] tool = "list-files" -> "File listing operation timed out after",
   ms |-> timeoutMs]

\* what operation() of a tool can settle with
OperationResults(tool) ==
  CASE tool = "create-dir" ->
         { Return(FALSE, "Directory already exists", "none"),
           Return(FALSE, "Successfully created directory", "none"),
           Throw("EACCES: permission denied, mkdir") }
    [] tool = "read-file" ->
         { Return(FALSE, "results", "none"), Throw("EMFILE: too many open files") }
    [] tool = "list-files" ->
         { Return(FALSE, "files", "none"), Throw("EACCES: permission denied, scandir") }

\* the statements after await withTimeout(...) and the catch of the handler
timedHandlerResume(tool, settled) ==
  IF settled.kind = "throw"
  THEN Return(TRUE,
              << CASE tool = "create-dir" -> "Error creating directory: "
                   [] OTHER -> "An unexpected error occurred: ",
                 settled.text >>,
              "failed")
  ELSE CASE tool = "create-dir" -> settled
         [] tool = "read-file" -> Return(FALSE, "JSON.stringify(operationResults)", "none")
         [] tool = "list-files" -> Return(FALSE, "Found items", "none")

withTimeoutTimerIgnored(p, tool, timeoutMs) == p

\* the setTimeout callback of withTimeout: reject(new Error(timeoutMessage))
withTimeoutOnTimer(p, tool, timeoutMs) ==
  PromiseSettle(p, Throw(timeoutMessage(tool, timeoutMs)))

\* the then and catch reactions of withTimeout: resolve(result), reject(error)
withTimeoutOnSettle(p, r) == PromiseSettle(p, r)

IdleTimed ==
  [pc |-> "idle", tool |-> "", timeoutMs |-> 0, timer |-> "none", op |-> "none",
   outer |-> Pending, first |-> "none", out |-> Return(FALSE, "", "none")]

InitTimeout ==
  /\ ServerIdle
  /\ WatchIdle
  /\ ProcIdle
  /\ ScriptIdle
  /\ MoreIdle
  /\ timed = IdleTimed
  /\ clock = 0

\* the handler up to await withTimeout(operation(), timeoutMs, message);
\* list-files first awaits fs.pathExists(targetPath) and returns when it is false
TimedStart(tool, timeout, exists) ==
  /\ timed.pc \in {"idle", "done"}
  /\ clock' = 0
  /\ timed' =
       IF tool = "list-files" /\ ~exists
       THEN [IdleTimed EXCEPT !.pc = "done", !.tool = tool,
                              !.out = Return(TRUE, "Error: Path does not exist", "input")]
       ELSE [IdleTimed EXCEPT !.pc = "racing", !.tool = tool,
                              !.timeoutMs = normalizeTimeout(timeout),
                              !.timer = "armed", !.op = "running"]
  /\ UNCHANGED notTimeout

\* a second passes; an armed timer does not outlive its delay
Tick ==
  /\ timed.pc = "racing"
  /\ clock * 1000 <= timed.timeoutMs
  /\ timed.timer = "armed" => (clock + 1) * 1000 <= timed.timeoutMs
  /\ clock' = clock + 1
  /\ UNCHANGED <<timed, notTimeout>>

\* operation() settles; its reaction clears the timer and settles the race
OperationSettles(r) ==
  /\ timed.pc = "racing" /\ timed.op = "running"
  /\ r \in OperationResults(timed.tool)
  /\ timed' = [timed EXCEPT
       !.op = IF r.kind = "throw" THEN "rejected" ELSE "resolved",
       !.timer = IF @ = "armed" THEN "cleared" ELSE @,
       !.first = IF @ = "none" THEN (IF r.kind = "throw" THEN "error" ELSE "result")
                 ELSE @,
       !.outer = withTimeoutOnSettle(@, r)]
  /\ UNCHANGED <<clock, notTimeout>>

\* the delay has elapsed: the setTimeout callback runs
TimerFires ==
  /\ timed.pc = "racing" /\ timed.timer = "armed"
  /\ clock * 1000 >= timed.timeoutMs
  /\ timed' = [timed EXCEPT
       !.timer = "fired",
       !.first = IF @ = "none" THEN "timer" ELSE @,
       !.outer = withTimeoutOnTimer(@, timed.tool, timed.timeoutMs)]
  /\ UNCHANGED <<clock, notTimeout>>

\* the handler resumes after its await and returns its Outcome
TimedResume ==
  /\ timed.pc = "racing"
  /\ timed.outer.jobs > 0
  /\ timed' = [timed EXCEPT
       !.pc = "done",
       !.outer.jobs = @ - 1,
       !.out = timedHandlerResume(timed.tool, timed.outer.value)]
  /\ UNCHANGED <<clock, notTimeout>>

\* an operation the timer has overtaken keeps running and settles later
LateSettle(r) ==
  /\ timed.pc = "done" /\ timed.op = "running"
  /\ r \in OperationResults(timed.tool)
  /\ timed' = [timed EXCEPT
       !.op = IF r.kind = "throw" THEN "rejected" ELSE "resolved",
       !.outer = withTimeoutOnSettle(@, r)]
  /\ UNCHANGED <<clock, notTimeout>>

NextTimeout ==
  \/ \E tool \in TimedTools : \E timeout \in TimeoutArgs : \E exists \in BOOLEAN :
       TimedStart(tool, timeout, exists)
  \/ Tick
  \/ \E r \in UNION { OperationResults(t) : t \in TimedTools } : OperationSettles(r)
  \/ TimerFires
  \/ TimedResume
  \/ \E r \in UNION { OperationResults(t) : t \in TimedTools } : LateSettle(r)

SpecTimeout == InitTimeout /\ [][NextTimeout]_vars

(***************************************************************************)
(* The process of index.ts: module evaluation (registryTools, the two      *)
(* process.on handlers, main), then requests until a fault.  A fault is an *)
(* exception nobody catches or a promise rejection nobody handles.         *)
(***************************************************************************)
MaxServed == 4
MaxChildren == 3

FaultKinds == { "uncaughtException", "unhandledRejection" }

notProc == <<boot, inv, watchVars, timeoutVars, scriptVars, moreVars>>

InitProc ==
  /\ phase = "boot"
  /\ exitCode = -1
  /\ imports = << >>
  /\ bootIdx = 1
  /\ bootDone = FALSE
  /\ called = << >>
  /\ diagnostics = 0
  /\ registry = << >>
  /\ regLog = << >>
  /\ inv = << >>
  /\ WatchIdle /\ TimeoutIdle /\ ScriptIdle /\ MoreIdle
  /\ proc = [at |-> "registryTools", handlers |-> FALSE, served |-> 0,
             children |-> 0, sessions |-> 0, fault |-> "none", afterFault |-> 0]

Exit(p, kind, code) == [ph |-> "exited", code |-> code, p |-> [p EXCEPT !.fault = kind]]

handlerLogsOnly(p, kind, ph) == [ph |-> ph, code |-> -1, p |-> [p EXCEPT !.fault = kind]]

\* process.on('uncaughtException') and process.on('unhandledRejection'):
\* console.error, process.exit(1)
handlerExits(p, kind, ph) == Exit(p, kind, 1)

\* a fault of the given kind: the installed handler runs; before the
\* handlers are installed the runtime prints the error and exits with 1
Fault(p, kind, ph) ==
  IF p.handlers THEN handlerExits(p, kind, ph) ELSE Exit(p, kind, 1)

ProcApply(r) ==
  /\ phase' = r.ph
  /\ exitCode' = r.code
  /\ proc' = r.p

Running(p, ph) == [ph |-> ph, code |-> -1, p |-> p]

\* line 13: registryTools(server), which may raise (no try around it)
ProcRegistryTools(throws) ==
  /\ phase = "boot" /\ proc.at = "registryTools"
  /\ ProcApply(IF throws THEN Fault(proc, "uncaughtException", phase)
               ELSE Running([proc EXCEPT !.at = "process.on"], phase))
  /\ bootDone' = ~throws
  /\ UNCHANGED <<imports, bootIdx, called, diagnostics, registry, regLog, inv,
                 watchVars, timeoutVars, scriptVars, moreVars>>

\* lines 97-105: the two handlers are installed
ProcInstallHandlers ==
  /\ phase = "boot" /\ proc.at = "process.on"
  /\ ProcApply(Running([proc EXCEPT !.at = "main", !.handlers = TRUE], phase))
  /\ UNCHANGED notProc

\* lines 16-94 and 108: main() builds the app and listens; an exception
\* inside its try block ends in process.exit(1), and a failing listen
\* (port in use) is an 'error' event without listener
ProcMain(result) ==
  /\ phase = "boot" /\ proc.at = "main"
  /\ ProcApply(CASE result = "listening" ->
                      Running([proc EXCEPT !.at = "serving"], "listening")
                 [] result = "caught" -> Exit(proc, "none", 1)
                 [] result = "listenError" -> Fault(proc, "uncaughtException", phase))
  /\ UNCHANGED notProc

\* a request is handled to its response
ProcServe ==
  /\ phase = "listening"
  /\ proc.served < MaxServed
  /\ ProcApply(Running([proc EXCEPT !.served = @ + 1,
                                    !.afterFault = IF proc.fault # "none" THEN @ + 1 ELSE @],
                       phase))
  /\ UNCHANGED notProc

\* execute-command-advanced with waitForCompletion false: the child is
\* spawned and unref'ed, no 'error' listener attached
ProcSpawnBackground ==
  /\ phase = "listening"
  /\ proc.served < MaxServed /\ proc.children < MaxChildren
  /\ ProcApply(Running([proc EXCEPT !.served = @ + 1, !.children = @ + 1,
                                    !.afterFault = IF proc.fault # "none" THEN @ + 1 ELSE @],
                       phase))
  /\ UNCHANGED notProc

\* a background child starts, or fails to start: its 'error' event has no
\* listener and is thrown
ProcChildSettles(fails) ==
  /\ phase = "listening"
  /\ proc.children > 0
  /\ ProcApply(IF fails
               THEN Fault([proc EXCEPT !.children = @ - 1], "uncaughtException", phase)
               ELSE Running([proc EXCEPT !.children = @ - 1], phase))
  /\ UNCHANGED notProc

\* GET /sse: the async route handler awaits server.connect(transport); its
\* rejection is handled by nobody
ProcSseConnect(rejects) ==
  /\ phase = "listening"
  /\ proc.sessions < MaxChildren
  /\ ProcApply(IF rejects
               THEN Fault(proc, "unhandledRejection", phase)
               ELSE Running([proc EXCEPT !.sessions = @ + 1], phase))
  /\ UNCHANGED notProc

\* res.on('close'): the session is dropped
ProcSseClose ==
  /\ phase = "listening"
  /\ proc.sessions > 0
  /\ ProcApply(Running([proc EXCEPT !.sessions = @ - 1], phase))
  /\ UNCHANGED notProc

NextProc ==
  \/ \E throws \in BOOLEAN : ProcRegistryTools(throws)
  \/ ProcInstallHandlers
  \/ \E result \in {"listening", "caught", "listenError"} : ProcMain(result)
  \/ ProcServe
  \/ ProcSpawnBackground
  \/ \E fails \in BOOLEAN : ProcChildSettles(fails)
  \/ \E rejects \in BOOLEAN : ProcSseConnect(rejects)
  \/ ProcSseClose

SpecProc == InitProc /\ [][NextProc]_vars

(***************************************************************************)
(* start_server.sh.  Sources are content versions of src/tools/index.ts    *)
(* and of the other files under src; a build remembers the sources it was  *)
(* compiled from.  The script runs under set -e: a failing command outside *)
(* a condition ends it on the spot.                                        *)
(***************************************************************************)
MaxEdits == 2

\* for i in {1..15}
HealthAttempts == 15

NoBuild == [index |-> -1, other |-> -1]

EmptyHash == [sha |-> -1]

\* sha256sum of a file, by the version of its content
sha256sum(content) == [sha |-> content]

InitStart ==
  /\ ServerIdle
  /\ WatchIdle /\ TimeoutIdle /\ ProcIdle /\ MoreIdle
  /\ script = [pc |-> "idle",
               src |-> [index |-> 0, other |-> 0],
               stable |-> NoBuild, hashFile |-> EmptyHash,
               tempDir |-> FALSE, temp |-> NoBuild,
               server |-> "none",
               NEW_HASH |-> EmptyHash, OLD_HASH |-> EmptyHash,
               SERVER_TO_RUN |-> "", i |-> 0,
               stable0 |-> NoBuild, hash0 |-> EmptyHash,
               skipped |-> FALSE, attempted |-> FALSE, buildFailed |-> FALSE,
               healthFailed |-> FALSE, healthy |-> FALSE,
               launched |-> NoBuild, status |-> -1]

BetweenRuns == script.pc \in {"idle", "done", "exited"}

\* a file under src is edited between two runs
ScriptEdit(file) ==
  /\ BetweenRuns
  /\ script.src.index + script.src.other < MaxEdits
  /\ script' = IF file = "index"
               THEN [script EXCEPT !.src.index = @ + 1]
               ELSE [script EXCEPT !.src.other = @ + 1]
  /\ UNCHANGED notScript

\* the script is started: stop_server_processes, empty the log
ScriptRun ==
  /\ BetweenRuns
  /\ script' = [script EXCEPT
       !.pc = "hashes", !.server = "none",
       !.NEW_HASH = EmptyHash, !.OLD_HASH = EmptyHash, !.SERVER_TO_RUN = "",
       !.i = 0, !.stable0 = script.stable, !.hash0 = script.hashFile,
       !.skipped = FALSE, !.attempted = FALSE, !.buildFailed = FALSE,
       !.healthFailed = FALSE, !.healthy = FALSE, !.launched = NoBuild,
       !.status = -1]
  /\ UNCHANGED notScript

\* 1. Calculate Hashes
ScriptHashes ==
  /\ script.pc = "hashes"
  /\ script' = [script EXCEPT !.pc = "decide",
                              !.NEW_HASH = sha256sum(script.src.index),
                              !.OLD_HASH = script.hashFile]
  /\ UNCHANGED notScript

\* 2. Decide whether to build or use cache
ScriptDecide ==
  /\ script.pc = "decide"
  /\ script' =
       IF /\ script.NEW_HASH = script.OLD_HASH
          /\ script.NEW_HASH # EmptyHash
          /\ script.stable # NoBuild
       THEN [script EXCEPT !.pc = "final", !.SERVER_TO_RUN = "stable",
                           !.skipped = TRUE]
       ELSE [script EXCEPT !.pc = "build", !.attempted = TRUE]
  /\ UNCHANGED notScript

SetE(sc) == [sc EXCEPT !.pc = "exited", !.status = 1]

\* mkdir, cp, and the subshell with bun install and bun run build; a failing
\* command ends the subshell and, through set -e, the script
ScriptBuild(ok) ==
  /\ script.pc = "build"
  /\ script' =
       IF ok
       THEN [script EXCEPT !.pc = "test", !.tempDir = TRUE, !.temp = script.src]
       ELSE SetE([script EXCEPT !.tempDir = TRUE, !.buildFailed = TRUE])
  /\ UNCHANGED notScript

\* PORT_FOR_TEST=$(find_available_port), then the candidate is started
ScriptTestStart(portFound) ==
  /\ script.pc = "test"
  /\ script' =
       IF portFound
       THEN [script EXCEPT !.pc = "wait", !.server = "candidate", !.i = 1]
       ELSE SetE(script)
  /\ UNCHANGED notScript

PromotesAlways(healthy) == TRUE

\* if wait_for_server $PORT_FOR_TEST $TEST_PID; then
Promotes(healthy) == healthy

WaitReturns(sc, healthy) ==
  IF Promotes(healthy)
  THEN [sc EXCEPT !.pc = "promote_rm", !.healthy = healthy,
                  !.healthFailed = ~healthy]
  ELSE [sc EXCEPT !.pc = "rollback", !.healthFailed = TRUE]

\* one round of the loop of wait_for_server: kill -0, curl, sleep
ScriptWaitAttempt(obs) ==
  /\ script.pc = "wait"
  /\ script' =
       CASE obs = "died" -> WaitReturns([script EXCEPT !.server = "none"], FALSE)
         [] obs = "healthy" -> WaitReturns(script, TRUE)
         [] obs = "notYet" ->
              IF script.i < HealthAttempts
              THEN [script EXCEPT !.i = @ + 1]
              ELSE WaitReturns(script, FALSE)
  /\ UNCHANGED notScript

\* stop_server_processes; rm -rf "$STABLE_DIST_DIR"
ScriptPromoteRm ==
  /\ script.pc = "promote_rm"
  /\ script' = [script EXCEPT !.pc = "promote_mv", !.server = "none",
                              !.stable = NoBuild]
  /\ UNCHANGED notScript

\* mv "$TEMP_BUILD/dist" "$STABLE_DIST_DIR"
ScriptPromoteMv(ok) ==
  /\ script.pc = "promote_mv"
  /\ script' =
       IF ok
       THEN [script EXCEPT !.pc = "promote_hash", !.stable = script.temp,
                           !.temp = NoBuild]
       ELSE SetE(script)
  /\ UNCHANGED notScript

\* echo "$NEW_HASH" > "$TOOLS_HASH_FILE"; SERVER_TO_RUN=$STABLE_BUILD_ENTRY
ScriptPromoteHash ==
  /\ script.pc = "promote_hash"
  /\ script' = [script EXCEPT !.pc = "cleanup", !.hashFile = script.NEW_HASH,
                              !.SERVER_TO_RUN = "stable"]
  /\ UNCHANGED notScript

\* the else branch: roll back to the stable build, or give up
ScriptRollback ==
  /\ script.pc = "rollback"
  /\ script' =
       IF script.stable # NoBuild
       THEN [script EXCEPT !.pc = "cleanup", !.server = "none",
                           !.SERVER_TO_RUN = "stable"]
       ELSE SetE([script EXCEPT !.server = "none", !.tempDir = FALSE,
                                !.temp = NoBuild])
  /\ UNCHANGED notScript

\* rm -rf "$TEMP_BUILD"
ScriptCleanup ==
  /\ script.pc = "cleanup"
  /\ script' = [script EXCEPT !.pc = "final", !.tempDir = FALSE, !.temp = NoBuild]
  /\ UNCHANGED notScript

\* 3. Final Start
ScriptFinalStart(portFound) ==
  /\ script.pc = "final"
  /\ script' =
       IF script.SERVER_TO_RUN = "" \/ ~portFound
       THEN SetE(script)
       ELSE [script EXCEPT !.pc = "verify", !.server = "stable",
                           !.launched = script.stable]
  /\ UNCHANGED notScript

\* Final verification: sleep 2; kill -0 $FINAL_PID
ScriptVerify(alive) ==
  /\ script.pc = "verify"
  /\ script' =
       IF alive
       THEN [script EXCEPT !.pc = "done", !.status = 0]
       ELSE SetE([script EXCEPT !.server = "none"])
  /\ UNCHANGED notScript

NextStart ==
  \/ \E file \in {"index", "other"} : ScriptEdit(file)
  \/ ScriptRun
  \/ ScriptHashes
  \/ ScriptDecide
  \/ \E ok \in BOOLEAN : ScriptBuild(ok)
  \/ \E portFound \in BOOLEAN : ScriptTestStart(portFound)
  \/ \E obs \in {"died", "healthy", "notYet"} : ScriptWaitAttempt(obs)
  \/ ScriptPromoteRm
  \/ \E ok \in BOOLEAN : ScriptPromoteMv(ok)
  \/ ScriptPromoteHash
  \/ ScriptRollback
  \/ ScriptCleanup
  \/ \E portFound \in BOOLEAN : ScriptFinalStart(portFound)
  \/ \E alive \in BOOLEAN : ScriptVerify(alive)

SpecStart == InitStart /\ [][NextStart]_vars

(***************************************************************************)
(* Time limits: config/time-limits reads TIME_LIMIT and MAX_TIME_LIMIT,    *)
(* the handlers compute the limit of a call from its timeout argument.     *)
(***************************************************************************)
\* the values the two environment variables are given; "" is unset
TimeLimitEnv == { "", "60", "300" }
MaxTimeLimitEnv == { "", "300", "1800" }

\* parseInt of a decimal string
parseInt(str) ==
  CASE str = "60"   -> 60
    [] str = "120"  -> 120
    [] str = "300"  -> 300
    [] str = "600"  -> 600
    [] str = "1800" -> 1800

\* process.env.X || fallback
OrElse(value, fallback) == IF value = "" THEN fallback ELSE value

DEFAULT_TIME_LIMIT(env) == parseInt(OrElse(env.TIME_LIMIT, "120"))

MAX_TIME_LIMIT(env) == parseInt(OrElse(env.MAX_TIME_LIMIT, "600"))

LimitedTools == TimedTools \cup { "execute-command-advanced" }

LimitArgs == { None, Num(0), Num(1), Num(100), Num(600), Num(601), Num(2000) }

NoLimit == [limited |-> FALSE, ms |-> 0]

\* the time limit a handler puts on its work: create-dir, read-file and
\* list-files call normalizeTimeout(timeout) and pass the result to
\* withTimeout; execute-command-advanced hands timeout to spawn as it is
AppliedLimit(tool, timeout, env) ==
  IF tool \in TimedTools
  THEN [limited |-> TRUE, ms |-> normalizeTimeout(timeout)]
  ELSE IF timeout.t = "none" \/ timeout.v = 0
       THEN NoLimit
       ELSE [limited |-> TRUE, ms |-> timeout.v]

InitLimits ==
  /\ ServerIdle
  /\ WatchIdle /\ TimeoutIdle /\ ProcIdle /\ ScriptIdle /\ CopyIdle /\ LateIdle
  /\ limits \in { [env |-> [TIME_LIMIT |-> t, MAX_TIME_LIMIT |-> m],
                   pc |-> "idle", tool |-> "", timeout |-> None,
                   applied |-> NoLimit] :
                    t \in TimeLimitEnv, m \in MaxTimeLimitEnv }

\* a call of one of the tools reaches the point where its limit is set
LimitCall(tool, timeout) ==
  /\ limits' = [limits EXCEPT !.pc = "applied", !.tool = tool,
                              !.timeout = timeout,
                              !.applied = AppliedLimit(tool, timeout, limits.env)]
  /\ UNCHANGED notLimits

NextLimits == \E tool \in LimitedTools : \E timeout \in LimitArgs : LimitCall(tool, timeout)

SpecLimits == InitLimits /\ [][NextLimits]_vars

(***************************************************************************)
(* copy-files and move-files over plain files.  Every await of a handler   *)
(* is a point where the handler of another invocation may run.  fs.copy    *)
(* with overwrite false and no errorOnExist leaves an existing destination *)
(* alone without raising; fs.move with overwrite false raises 'dest        *)
(* already exists.'.                                                       *)
(***************************************************************************)
CopySlots == { 1, 2 }

CopyPaths == { "a", "b", "t" }

CopyTools == { "copy-files", "move-files" }

\* overwrite: z.boolean().optional(), destructured with the default false
OverwriteArgs == { None, Bool(FALSE), Bool(TRUE) }

OverwriteOf(arg) == IF arg.t = "none" THEN FALSE ELSE arg.v

IdleCopyCall ==
  [pc |-> "idle", tool |-> "", sourcePath |-> "", targetPath |-> "",
   overwrite |-> FALSE, targetExists |-> FALSE, ranOp |-> FALSE,
   sawTarget |-> 0, changed |-> FALSE, out |-> Return(FALSE, "", "none")]

InitCopy ==
  /\ ServerIdle
  /\ WatchIdle /\ TimeoutIdle /\ ProcIdle /\ ScriptIdle /\ LimitsIdle /\ LateIdle
  /\ files \in { [a |-> 1, b |-> 2, t |-> x] : x \in {0, 3} }
  /\ copyCalls = [c \in CopySlots |-> IdleCopyCall]

CopyDone(call, out) == [call EXCEPT !.pc = "done", !.out = out]

CopyCaught(call) ==
  CopyDone(call, Return(TRUE, IF call.tool = "copy-files" THEN "Error copying file"
                              ELSE "Error moving file", "failed"))

\* the handler starts: the first await is fs.pathExists(sourcePath); each slot
\* carries one invocation
CopyRequest(c, tool, sourcePath, targetPath, overwrite) ==
  /\ copyCalls[c].pc = "idle"
  /\ copyCalls' = [copyCalls EXCEPT ![c] =
       [IdleCopyCall EXCEPT !.pc = "checkSource", !.tool = tool,
                            !.sourcePath = sourcePath, !.targetPath = targetPath,
                            !.overwrite = OverwriteOf(overwrite)]]
  /\ UNCHANGED <<files, notCopy>>

\* pathExists(sourcePath) answers; move-files then compares the two paths
CopyCheckSource(c) ==
  /\ copyCalls[c].pc = "checkSource"
  /\ LET call == copyCalls[c] IN
     copyCalls' = [copyCalls EXCEPT ![c] =
       IF files[call.sourcePath] = 0
       THEN CopyDone(call, Return(TRUE, "Error: Source file or folder does not exist",
                                  "input"))
       ELSE IF call.tool = "move-files" /\ call.sourcePath = call.targetPath
       THEN CopyDone(call, Return(TRUE, "Error: Source and target paths cannot be the same",
                                  "input"))
       ELSE [call EXCEPT !.pc = "checkTarget"]]
  /\ UNCHANGED <<files, notCopy>>

\* const targetExists = await fs.pathExists(targetPath);
\* if (targetExists && !overwrite) return the error
targetCheck(call, exists) ==
  IF exists /\ ~call.overwrite
  THEN CopyDone([call EXCEPT !.targetExists = exists],
                Return(TRUE, "Error: Target path already exists. Set overwrite=true to overwrite.",
                       "input"))
  ELSE [call EXCEPT !.pc = "prepare", !.targetExists = exists]

CopyCheckTarget(c) ==
  /\ copyCalls[c].pc = "checkTarget"
  /\ LET call == copyCalls[c] IN
     copyCalls' = [copyCalls EXCEPT ![c] = targetCheck(call, files[call.targetPath] # 0)]
  /\ UNCHANGED <<files, notCopy>>

\* fs.stat(sourcePath), the size, fs.ensureDir(targetDir)
CopyPrepare(c) ==
  /\ copyCalls[c].pc = "prepare"
  /\ LET call == copyCalls[c] IN
     copyCalls' = [copyCalls EXCEPT ![c] =
       IF files[call.sourcePath] = 0 THEN CopyCaught(call)
       ELSE [call EXCEPT !.pc = "operate"]]
  /\ UNCHANGED <<files, notCopy>>

\* fs.copy(sourcePath, targetPath, { overwrite }) on files
fsCopy(fsys, src, dst, overwrite) ==
  IF fsys[src] = 0 \/ src = dst THEN [ok |-> FALSE, files |-> fsys]
  ELSE IF fsys[dst] # 0 /\ ~overwrite THEN [ok |-> TRUE, files |-> fsys]
  ELSE [ok |-> TRUE, files |-> [fsys EXCEPT ![dst] = fsys[src]]]

\* fs.move(sourcePath, targetPath, { overwrite }) on files
fsMove(fsys, src, dst, overwrite) ==
  IF fsys[src] = 0 \/ src = dst THEN [ok |-> FALSE, files |-> fsys]
  ELSE IF fsys[dst] # 0 /\ ~overwrite THEN [ok |-> FALSE, files |-> fsys]
  ELSE [ok |-> TRUE, files |-> [fsys EXCEPT ![dst] = fsys[src], ![src] = 0]]

\* the copy or the move itself
CopyOperate(c) ==
  /\ copyCalls[c].pc = "operate"
  /\ LET call == copyCalls[c]
         r == IF call.tool = "copy-files"
              THEN fsCopy(files, call.sourcePath, call.targetPath, call.overwrite)
              ELSE fsMove(files, call.sourcePath, call.targetPath, call.overwrite)
         seen == [call EXCEPT !.ranOp = TRUE, !.sawTarget = files[call.targetPath],
                              !.changed = r.files # files]
     IN
     /\ files' = r.files
     /\ copyCalls' = [copyCalls EXCEPT ![c] =
          IF r.ok THEN [seen EXCEPT !.pc = "verify"] ELSE CopyCaught(seen)]
  /\ UNCHANGED notCopy

\* the checks after the operation and the success Outcome
CopyVerify(c) ==
  /\ copyCalls[c].pc = "verify"
  /\ LET call == copyCalls[c] IN
     copyCalls' = [copyCalls EXCEPT ![c] =
       IF files[call.targetPath] = 0
       THEN CopyDone(call, Return(TRUE, "Error: operation completed but target file not found",
                                  "failed"))
       ELSE IF call.tool = "move-files" /\ files[call.sourcePath] # 0
       THEN CopyDone(call, Return(TRUE, "Warning: Move operation completed but source file still exists",
                                  "failed"))
       ELSE CopyDone(call, Return(FALSE, IF call.tool = "copy-files" THEN "Copy complete!"
                                         ELSE "Move complete!", "none"))]
  /\ UNCHANGED <<files, notCopy>>

NextCopy ==
  \/ \E c \in CopySlots : \E tool \in CopyTools :
       \E sourcePath \in CopyPaths : \E targetPath \in CopyPaths :
         \E overwrite \in OverwriteArgs :
           CopyRequest(c, tool, sourcePath, targetPath, overwrite)
  \/ \E c \in CopySlots : CopyCheckSource(c)
  \/ \E c \in CopySlots : CopyCheckTarget(c)
  \/ \E c \in CopySlots : CopyPrepare(c)
  \/ \E c \in CopySlots : CopyOperate(c)
  \/ \E c \in CopySlots : CopyVerify(c)

SpecCopy == InitCopy /\ [][NextCopy]_vars

(***************************************************************************)
(* write-file.  File contents are sequences of characters; one invocation  *)
(* runs at a time and nothing else touches the file while it runs.  The    *)
(* encoding is the default utf-8.                                          *)
(***************************************************************************)
MaxWrites == 3

WriteContents == { << >>, <<"x">>, <<"y">> }

\* typeof content === 'string' or content instanceof Buffer
ContentKinds == { "string", "buffer" }

\* mode: z.enum(['w', 'a', 'wb', 'ab']).optional().default('w')
WriteModeArgs == { None, Str("w"), Str("a"), Str("wb"), Str("ab") }

WriteModeOf(arg) == IF arg.t = "none" THEN "w" ELSE arg.v

\* atomic: z.boolean().optional().default(false)
AtomicArgs == { None, Bool(FALSE), Bool(TRUE) }

AtomicOf(arg) == IF arg.t = "none" THEN FALSE ELSE arg.v

NoFile == [exists |-> FALSE, data |-> << >>]

AFile(data) == [exists |-> TRUE, data |-> data]

IdleWrite ==
  [pc |-> "idle", content |-> << >>, kind |-> "string", mode |-> "w",
   atomic |-> FALSE, prev |-> << >>, tmp |-> NoFile,
   out |-> Return(FALSE, "", "none")]

InitWrite ==
  /\ EarlyIdle
  /\ SuggIdle /\ TodoIdle /\ ConnIdle /\ DdirIdle
  /\ wfile \in { [file |-> f, temps |-> 0, n |-> 0, call |-> IdleWrite] :
                   f \in { NoFile, AFile(<<"x">>) } }

\* mode.endsWith('b')
isBinaryMode(mode) == mode \in { "wb", "ab" }

\* fs.writeFile(file, data, { flag }): Node accepts the flags 'w' and 'a' and
\* raises ERR_INVALID_ARG_VALUE for 'wb' and 'ab'
fsWriteFile(file, data, flag) ==
  CASE flag = "w" -> [ok |-> TRUE, file |-> AFile(data)]
    [] flag = "a" -> [ok |-> TRUE, file |-> AFile(file.data \o data)]
    [] OTHER -> [ok |-> FALSE, file |-> file]

WriteCaught(call) ==
  [call EXCEPT !.pc = "done",
               !.out = Return(TRUE, "An unexpected error occurred while writing to file",
                              "failed")]

WriteSucceeds(call) ==
  [call EXCEPT !.pc = "done", !.out = Return(FALSE, "Successfully wrote", "none")]

\* the handler starts and awaits fs.ensureDir(dir)
WriteRequest(content, kind, mode, atomic) ==
  /\ wfile.call.pc \in { "idle", "done" }
  /\ wfile.n < MaxWrites
  /\ wfile' = [wfile EXCEPT !.n = @ + 1,
       !.call = [IdleWrite EXCEPT !.pc = "ensureDir", !.content = content,
                                  !.kind = kind, !.mode = WriteModeOf(mode),
                                  !.atomic = AtomicOf(atomic),
                                  !.prev = wfile.file.data]]
  /\ UNCHANGED notWfile

\* the target of the first fs.writeFile: the temporary file when atomic
writeTarget(call) == IF call.atomic THEN "writeTemp" ELSE "writeDirect"

\* ensureDir settles, the two content checks, the choice of the write
WriteEnsureDir(ok) ==
  /\ wfile.call.pc = "ensureDir"
  /\ LET call == wfile.call IN
     wfile' = [wfile EXCEPT !.call =
       IF ~ok THEN WriteCaught(call)
       ELSE IF isBinaryMode(call.mode) /\ call.kind = "string"
       THEN [call EXCEPT !.pc = "done",
              !.out = Return(TRUE, "Error: In binary mode ('wb' or 'ab'), content must be a Buffer.",
                             "input")]
       ELSE IF ~isBinaryMode(call.mode) /\ call.kind = "buffer"
       THEN [call EXCEPT !.pc = "done",
              !.out = Return(TRUE, "Error: To write a Buffer, use a binary mode ('wb' or 'ab').",
                             "input")]
       ELSE [call EXCEPT !.pc = writeTarget(call)]]
  /\ UNCHANGED notWfile

\* await fs.writeFile(tempFile, content, options): tempFile carries Date.now()
\* in its name and does not exist yet
WriteTemp(ok) ==
  /\ wfile.call.pc = "writeTemp"
  /\ LET call == wfile.call
         r == fsWriteFile(NoFile, call.content, call.mode)
     IN
     wfile' = IF ok /\ r.ok
              THEN [wfile EXCEPT !.temps = @ + 1,
                                 !.call = [call EXCEPT !.pc = "rename", !.tmp = r.file]]
              ELSE [wfile EXCEPT !.call = WriteCaught(call)]
  /\ UNCHANGED notWfile

\* await fs.rename(tempFile, filePath)
WriteRename(ok) ==
  /\ wfile.call.pc = "rename"
  /\ LET call == wfile.call IN
     wfile' = IF ok
              THEN [wfile EXCEPT !.file = call.tmp, !.temps = @ - 1,
                                 !.call = WriteSucceeds([call EXCEPT !.tmp = NoFile])]
              ELSE [wfile EXCEPT !.call = WriteCaught(call)]
  /\ UNCHANGED notWfile

\* await fs.writeFile(filePath, content, options)
WriteDirect(ok) ==
  /\ wfile.call.pc = "writeDirect"
  /\ LET call == wfile.call
         r == fsWriteFile(wfile.file, call.content, call.mode)
     IN
     wfile' = IF ok /\ r.ok
              THEN [wfile EXCEPT !.file = r.file, !.call = WriteSucceeds(call)]
              ELSE [wfile EXCEPT !.call = WriteCaught(call)]
  /\ UNCHANGED notWfile

NextWrite ==
  \/ \E content \in WriteContents : \E kind \in ContentKinds :
       \E mode \in WriteModeArgs : \E atomic \in AtomicArgs :
         WriteRequest(content, kind, mode, atomic)
  \/ \E ok \in BOOLEAN : WriteEnsureDir(ok)
  \/ \E ok \in BOOLEAN : WriteTemp(ok)
  \/ \E ok \in BOOLEAN : WriteRename(ok)
  \/ \E ok \in BOOLEAN : WriteDirect(ok)

SpecWrite == InitWrite /\ [][NextWrite]_vars

(***************************************************************************)
(* code-suggestions over a flat directory.  A line is the set of the       *)
(* patterns it contains; of the rules of analyzeFile the console.log rule  *)
(* (performance) and the eval rule (security) are modelled.                *)
(***************************************************************************)
MaxFiles == 2

MaxLines == 2

Markers == { "console.log", "eval(" }

SuggLines == SUBSET Markers

\* content.split('\n') yields at least one line
SuggFiles == UNION { [1..n -> SuggLines] : n \in 1..MaxLines }

SuggDirs == UNION { [1..n -> SuggFiles] : n \in 0..MaxFiles }

\* suggestion_types: optional().default(['performance', 'security'])
SuggTypeArgs == { [t |-> "none", v |-> {}] } \cup
                { [t |-> "array", v |-> s] : s \in SUBSET { "performance", "security" } }

SuggTypesOf(arg) == IF arg.t = "none" THEN { "performance", "security" } ELSE arg.v

\* max_suggestions: z.number().optional().default(50)
MaxSuggestionArgs == { None, Num(0), Num(1), Num(2) }

MaxSuggestionsOf(arg) == IF arg.t = "none" THEN 50 ELSE arg.v

InitSugg ==
  /\ EarlyIdle
  /\ WfileIdle /\ TodoIdle /\ ConnIdle /\ DdirIdle
  /\ sugg \in { [dir |-> d, pc |-> "idle", types |-> {}, max |-> 0, item |-> 1,
                 suggestions |-> << >>, out |-> Return(FALSE, "", "none"),
                 total |-> 0, listed |-> 0] : d \in SuggDirs }

\* the suggestions one line pushes, in the order of the rules
lineSuggestions(file, lineNumber, line, types) ==
  (IF "performance" \in types /\ "console.log" \in line
   THEN << [file |-> file, line |-> lineNumber, type |-> "performance",
            severity |-> "low"] >>
   ELSE << >>)
  \o
  (IF "security" \in types /\ "eval(" \in line
   THEN << [file |-> file, line |-> lineNumber, type |-> "security",
            severity |-> "high"] >>
   ELSE << >>)

\* for (let i = 0; i < lines.length; i++) { ...rules...;
\*   if (suggestions.length >= max_suggestions) return; }
RECURSIVE analyzeLines(_, _, _, _, _, _)
analyzeLines(file, lines, i, suggestions, types, max) ==
  IF i > Len(lines) THEN suggestions
  ELSE LET pushed == suggestions \o lineSuggestions(file, i, lines[i], types) IN
       IF Len(pushed) >= max THEN pushed
       ELSE analyzeLines(file, lines, i + 1, pushed, types, max)

\* suggestions.sort by severity, then by type
sortSuggestions(s) ==
  SelectSeq(s, LAMBDA x : x.severity = "high") \o
  SelectSeq(s, LAMBDA x : x.severity = "low")

\* the handler starts: await fs.pathExists(directory)
SuggRequest(types, max) ==
  /\ sugg.pc = "idle"
  /\ sugg' = [sugg EXCEPT !.pc = "exists", !.types = SuggTypesOf(types),
                          !.max = MaxSuggestionsOf(max)]
  /\ UNCHANGED notSugg

\* pathExists answers; analyzeDirectory awaits fs.readdir
SuggExists(exists) ==
  /\ sugg.pc = "exists"
  /\ sugg' = IF exists
             THEN [sugg EXCEPT !.pc = "readdir"]
             ELSE [sugg EXCEPT !.pc = "done",
                     !.out = Return(TRUE, "Error: Directory does not exist", "input")]
  /\ UNCHANGED notSugg

\* readdir answers; a failure is ignored by the catch of analyzeDirectory
SuggReaddir(ok) ==
  /\ sugg.pc = "readdir"
  /\ sugg' = [sugg EXCEPT !.pc = IF ok /\ Len(sugg.dir) > 0 THEN "readFile" ELSE "answer"]
  /\ UNCHANGED notSugg

\* analyzeFile of the current item after fs.readFile, then the check of
\* analyzeDirectory after the item
SuggAnalyzeFile(ok) ==
  /\ sugg.pc = "readFile"
  /\ LET found == IF ok
                  THEN analyzeLines(sugg.item, sugg.dir[sugg.item], 1, sugg.suggestions,
                                    sugg.types, sugg.max)
                  ELSE sugg.suggestions
     IN
     sugg' = [sugg EXCEPT !.suggestions = found,
                !.item = @ + 1,
                !.pc = IF Len(found) >= sugg.max \/ sugg.item = Len(sugg.dir)
                       THEN "answer" ELSE "readFile"]
  /\ UNCHANGED notSugg

\* the sort and the report
SuggAnswer ==
  /\ sugg.pc = "answer"
  /\ LET sorted == sortSuggestions(sugg.suggestions) IN
     sugg' = [sugg EXCEPT !.pc = "done", !.suggestions = sorted,
                !.total = Len(sorted),
                !.listed = Len(SelectSeq(sorted, LAMBDA x : x.type = "security"))
                           + Len(SelectSeq(sorted, LAMBDA x : x.type = "performance")),
                !.out = Return(FALSE, "# Code Analysis & Suggestions", "none")]
  /\ UNCHANGED notSugg

NextSugg ==
  \/ \E types \in SuggTypeArgs : \E max \in MaxSuggestionArgs : SuggRequest(types, max)
  \/ \E exists \in BOOLEAN : SuggExists(exists)
  \/ \E ok \in BOOLEAN : SuggReaddir(ok)
  \/ \E ok \in BOOLEAN : SuggAnalyzeFile(ok)
  \/ SuggAnswer

SpecSugg == InitSugg /\ [][NextSugg]_vars

(***************************************************************************)
(* todo-list-tool with its file.  The handler reads todo-list.json, works  *)
(* on the parsed copy and writes the whole copy back; the read and the     *)
(* write are awaited, so the handler of another invocation may run between *)
(* them.  An argument that is absent is the empty string, which the        *)
(* handler treats alike.  Priority and due date of a task are left out.    *)
(***************************************************************************)
TodoSlots == { 1, 2 }

NoTodoData == [projects |-> << >>, current_project |-> ""]

ATask(id, text) == [id |-> id, text |-> text, completed |-> FALSE]

\* contents of todo-list.json that earlier calls leave behind
TodoFiles ==
  { NoTodoData,
    [projects |-> << [name |-> "p", tasks |-> << >>] >>, current_project |-> "p"],
    [projects |-> << [name |-> "p", tasks |-> << >>], [name |-> "q", tasks |-> << >>] >>,
     current_project |-> "p"],
    [projects |-> << [name |-> "p", tasks |-> << ATask(1, "a"), ATask(2, "b") >>] >>,
     current_project |-> "p"] }

TodoParams ==
  { [operation |-> op, project_name |-> n, task |-> "", task_id |-> ""] :
      op \in { "create_project", "switch_project" }, n \in { "", "p", "q" } }
  \cup { [operation |-> "add_task", project_name |-> "", task |-> t, task_id |-> ""] :
           t \in { "", "t", "u" } }
  \cup { [operation |-> op, project_name |-> "", task |-> "", task_id |-> i] :
           op \in { "remove_task", "complete_task" }, i \in { "", "1", "2", "x" } }
  \cup { [operation |-> op, project_name |-> "", task |-> "", task_id |-> ""] :
           op \in { "list_tasks", "list_projects", "rename_project" } }

\* parseInt(task_id); NaN, which equals no id, is 0
parseTaskId(str) ==
  CASE str = "1" -> 1
    [] str = "2" -> 2
    [] str = "3" -> 3
    [] OTHER -> 0

\* data.projects.find(p => p.name === name): its index, 0 when there is none
findProject(data, name) ==
  LET hits == { k \in 1..Len(data.projects) : data.projects[k].name = name }
  IN IF hits = {} THEN 0 ELSE CHOOSE k \in hits : \A j \in hits : k <= j

\* tasks.find(t => t.id === id): its index, 0 when there is none
findTask(tasks, id) ==
  LET hits == { k \in 1..Len(tasks) : tasks[k].id = id }
  IN IF hits = {} THEN 0 ELSE CHOOSE k \in hits : \A j \in hits : k <= j

TodoStop(out, data) == [out |-> out, data |-> data, writes |-> FALSE]

TodoSave(okText, data) ==
  [out |-> Return(FALSE, okText, "none"), data |-> data, writes |-> TRUE]

\* id: project.tasks.length + 1
newTaskId(tasks) == Len(tasks) + 1

\* the switch on the operation, up to the await of writeTodoData or the return
todoSwitch(params, data) ==
  LET op == params.operation
      cur == findProject(data, data.current_project)
      noProject == TodoStop(Return(TRUE, "Error: No project selected.", "input"), data)
      notFound == TodoStop(Return(TRUE, "Error: Current project not found.", "input"), data)
  IN
  CASE op = "create_project" ->
         IF params.project_name = ""
         THEN TodoStop(Return(TRUE, "Error: 'project_name' is required.", "input"), data)
         ELSE IF findProject(data, params.project_name) # 0
         THEN TodoStop(Return(TRUE, "Error: Project already exists.", "input"), data)
         ELSE TodoSave("Project created.",
                [data EXCEPT !.projects =
                   Append(@, [name |-> params.project_name, tasks |-> << >>])])
    [] op = "add_task" ->
         IF data.current_project = "" THEN noProject
         ELSE IF params.task = ""
         THEN TodoStop(Return(TRUE, "Error: 'task' is required.", "input"), data)
         ELSE IF cur # 0
         THEN TodoSave("Task added to project.",
                [data EXCEPT !.projects[cur].tasks =
                   Append(@, ATask(newTaskId(@), params.task))])
         ELSE notFound
    [] op = "remove_task" ->
         IF data.current_project = "" THEN noProject
         ELSE IF params.task_id = ""
         THEN TodoStop(Return(TRUE, "Error: 'task_id' is required.", "input"), data)
         ELSE IF cur # 0
         THEN TodoSave("Task removed.",
                [data EXCEPT !.projects[cur].tasks =
                   SelectSeq(@, LAMBDA t : t.id # parseTaskId(params.task_id))])
         ELSE notFound
    [] op = "list_tasks" ->
         IF data.current_project = "" THEN noProject
         ELSE IF cur # 0 THEN TodoStop(Return(FALSE, "tasks", "none"), data)
         ELSE notFound
    [] op = "complete_task" ->
         IF data.current_project = "" THEN noProject
         ELSE IF params.task_id = ""
         THEN TodoStop(Return(TRUE, "Error: 'task_id' is required.", "input"), data)
         ELSE IF cur # 0
         THEN LET k == findTask(data.projects[cur].tasks, parseTaskId(params.task_id)) IN
              IF k # 0
              THEN TodoSave("Task marked as completed.",
                     [data EXCEPT !.projects[cur].tasks[k].completed = TRUE])
              ELSE TodoStop(Return(TRUE, "Error: Task not found.", "input"), data)
         ELSE notFound
    [] op = "list_projects" -> TodoStop(Return(FALSE, "projects", "none"), data)
    [] op = "switch_project" ->
         IF params.project_name = ""
         THEN TodoStop(Return(TRUE, "Error: 'project_name' is required.", "input"), data)
         ELSE IF findProject(data, params.project_name) = 0
         THEN TodoStop(Return(TRUE, "Error: Project not found.", "input"), data)
         ELSE TodoSave("Switched to project.",
                [data EXCEPT !.current_project = params.project_name])
    [] OTHER -> TodoStop(Return(TRUE, "Error: Unknown operation", "input"), data)

IdleTodoCall ==
  [pc |-> "idle", params |-> [operation |-> "", project_name |-> "", task |-> "",
                              task_id |-> ""],
   data |-> NoTodoData, project |-> "", out |-> Return(FALSE, "", "none")]

InitTodo ==
  /\ EarlyIdle
  /\ WfileIdle /\ SuggIdle /\ ConnIdle /\ DdirIdle
  /\ todo \in { [file |-> f, calls |-> [c \in TodoSlots |-> IdleTodoCall]] :
                  f \in TodoFiles }

\* the handler starts and awaits readTodoData; each slot carries one invocation
TodoRequest(c, params) ==
  /\ todo.calls[c].pc = "idle"
  /\ todo' = [todo EXCEPT !.calls[c] = [IdleTodoCall EXCEPT !.pc = "read",
                                                           !.params = params]]
  /\ UNCHANGED notTodo

\* readTodoData answers with the content of the file; the switch runs up to
\* its return or to the await of writeTodoData
TodoRead(c) ==
  /\ todo.calls[c].pc = "read"
  /\ LET r == todoSwitch(todo.calls[c].params, todo.file) IN
     todo' = [todo EXCEPT !.calls[c] =
       [@ EXCEPT !.pc = IF r.writes THEN "write" ELSE "done",
                 !.data = r.data, !.out = r.out,
                 !.project = todo.file.current_project]]
  /\ UNCHANGED notTodo

\* writeTodoData(data): the file becomes the copy of this invocation
TodoWrite(c, ok) ==
  /\ todo.calls[c].pc = "write"
  /\ todo' = IF ok
             THEN [todo EXCEPT !.file = todo.calls[c].data, !.calls[c].pc = "done"]
             ELSE [todo EXCEPT !.calls[c].pc = "done",
                     !.calls[c].out = Return(TRUE, "Error performing to-do list operation",
                                             "failed")]
  /\ UNCHANGED notTodo

NextTodo ==
  \/ \E c \in TodoSlots : \E params \in TodoParams : TodoRequest(c, params)
  \/ \E c \in TodoSlots : TodoRead(c)
  \/ \E c \in TodoSlots : \E ok \in BOOLEAN : TodoWrite(c, ok)

SpecTodo == InitTodo /\ [][NextTodo]_vars

(***************************************************************************)
(* The database connection of one invocation of query-sqlite or of         *)
(* knowledge-base-manager.  db.close() on a connection that is already     *)
(* closed calls back with SQLITE_MISUSE, which dbClose turns into a        *)
(* rejection.                                                              *)
(***************************************************************************)
QuerySqliteOps ==
  { "create_db", "execute_query", "import_csv", "export_csv", "get_schema",
    "drop_table", "backup", "restore", "transaction", "get_stats", "unknown" }

KnowledgeBaseOps ==
  { "create_db", "create_table", "drop_table", "add_item", "update_item",
    "delete_item", "search_items", "get_item", "list_all_items", "get_schema",
    "execute_sql", "list_tags" }

ConnCalls ==
  { [tool |-> "query-sqlite", op |-> o] : o \in QuerySqliteOps }
  \cup { [tool |-> "knowledge-base-manager", op |-> o] : o \in KnowledgeBaseOps }

\* the operations that return early when a parameter of theirs is missing
NeedsParameter(call) ==
  IF call.tool = "query-sqlite"
  THEN call.op \in { "execute_query", "import_csv", "export_csv", "drop_table",
                     "backup", "restore", "transaction" }
  ELSE call.op \in { "add_item", "update_item", "delete_item", "get_item",
                     "execute_sql" }

\* the operations that return early when their statement or file has no rows
RefusesEmpty(call) ==
  IF call.tool = "query-sqlite"
  THEN call.op \in { "import_csv", "export_csv" }
  ELSE call.op = "get_item"

IdleConn ==
  [pc |-> "idle", call |-> [tool |-> "", op |-> ""], given |-> TRUE,
   db |-> "none", closeCalls |-> 0, out |-> Return(FALSE, "", "none"),
   pending |-> Return(FALSE, "", "none")]

InitConn ==
  /\ EarlyIdle
  /\ WfileIdle /\ SuggIdle /\ TodoIdle /\ DdirIdle
  /\ conn = IdleConn

\* catch (error): the error Outcome, with no use of the connection
ConnCaught(c) ==
  [c EXCEPT !.pc = "done",
            !.out = Return(TRUE, IF c.call.tool = "query-sqlite"
                                 THEN "Error performing SQLite operation"
                                 ELSE "Database error", "failed")]

\* the early return of an operation whose parameter is missing
missingParameter(c) ==
  IF c.call.tool = "query-sqlite" /\ c.call.op = "restore"
  THEN [c EXCEPT !.pc = "done",
                 !.out = Return(TRUE, "Error: 'backup_path' parameter is required for restore operation.",
                                "input")]
  ELSE [c EXCEPT !.pc = "closeThenReturn",
                 !.pending = Return(TRUE, "Error: parameter is required", "input")]

\* the switch on the operation, up to its first await
connSwitch(c) ==
  IF NeedsParameter(c.call) /\ ~c.given THEN missingParameter(c)
  ELSE IF c.call.tool = "query-sqlite"
  THEN CASE c.call.op \in { "backup", "restore" } -> [c EXCEPT !.pc = "closeFirst"]
         [] c.call.op = "transaction" -> [c EXCEPT !.pc = "begin"]
         [] c.call.op \in { "create_db", "unknown" } -> [c EXCEPT !.pc = "finalClose"]
         [] OTHER -> [c EXCEPT !.pc = "statement"]
  ELSE IF c.call.op = "create_db" THEN [c EXCEPT !.pc = "finalClose"]
  ELSE [c EXCEPT !.pc = "statement"]

\* the handler starts and awaits fs.ensureDir
ConnRequest(call, given) ==
  /\ conn.pc \in { "idle", "done" }
  /\ conn' = [IdleConn EXCEPT !.pc = "ensureDir", !.call = call, !.given = given]
  /\ UNCHANGED notConn

\* ensureDir settles, new sqlite3.Database(path), the switch begins
ConnOpen(ok) ==
  /\ conn.pc = "ensureDir"
  /\ conn' = IF ok THEN connSwitch([conn EXCEPT !.db = "open"]) ELSE ConnCaught(conn)
  /\ UNCHANGED notConn

\* the statements and file reads of an operation settle
ConnStatement(res) ==
  /\ conn.pc = "statement"
  /\ conn' = CASE res = "fail" -> ConnCaught(conn)
               [] res = "empty" /\ RefusesEmpty(conn.call) ->
                    [conn EXCEPT !.pc = "closeThenReturn",
                                 !.pending = Return(TRUE, "Error: nothing found", "input")]
               [] OTHER -> [conn EXCEPT !.pc = "finalClose"]
  /\ UNCHANGED notConn

\* await dbRun('BEGIN TRANSACTION')
ConnBegin(ok) ==
  /\ conn.pc = "begin"
  /\ conn' = IF ok THEN [conn EXCEPT !.pc = "inTransaction"] ELSE ConnCaught(conn)
  /\ UNCHANGED notConn

\* the queries of the transaction and COMMIT
ConnTransaction(ok) ==
  /\ conn.pc = "inTransaction"
  /\ conn' = [conn EXCEPT !.pc = IF ok THEN "finalClose" ELSE "rollback"]
  /\ UNCHANGED notConn

\* await dbRun('ROLLBACK'); throw error
ConnRollback(ok) ==
  /\ conn.pc = "rollback"
  /\ conn' = ConnCaught(conn)
  /\ UNCHANGED notConn

\* await dbClose()
ConnClose ==
  /\ conn.pc \in { "closeFirst", "closeThenReturn", "finalClose" }
  /\ LET c == [conn EXCEPT !.closeCalls = @ + 1] IN
     conn' = IF conn.db # "open" THEN ConnCaught(c)
             ELSE CASE conn.pc = "closeFirst" -> [c EXCEPT !.db = "closed", !.pc = "copy"]
                    [] conn.pc = "closeThenReturn" ->
                         [c EXCEPT !.db = "closed", !.pc = "done", !.out = c.pending]
                    [] OTHER ->
                         [c EXCEPT !.db = "closed", !.pc = "done",
                                   !.out = Return(FALSE, "resultText", "none")]
  /\ UNCHANGED notConn

\* await fs.copy between the database file and the backup
ConnCopy(ok) ==
  /\ conn.pc = "copy"
  /\ conn' = IF ok THEN [conn EXCEPT !.pc = "finalClose"] ELSE ConnCaught(conn)
  /\ UNCHANGED notConn

NextConn ==
  \/ \E call \in ConnCalls : \E given \in BOOLEAN : ConnRequest(call, given)
  \/ \E ok \in BOOLEAN : ConnOpen(ok)
  \/ \E res \in { "rows", "empty", "fail" } : ConnStatement(res)
  \/ \E ok \in BOOLEAN : ConnBegin(ok)
  \/ \E ok \in BOOLEAN : ConnTransaction(ok)
  \/ \E ok \in BOOLEAN : ConnRollback(ok)
  \/ ConnClose
  \/ \E ok \in BOOLEAN : ConnCopy(ok)

SpecConn == InitConn /\ [][NextConn]_vars

(***************************************************************************)
(* delete-dir on one directory, with other invocations that write files    *)
(* into it.  fs.remove deletes the directory with whatever it holds.       *)
(***************************************************************************)
DeleteSlots == { 1, 2 }

EntryNames == { "f", "g" }

\* recursive: z.boolean().optional(), destructured with the default true
RecursiveArgs == { None, Bool(FALSE), Bool(TRUE) }

RecursiveOf(arg) == IF arg.t = "none" THEN TRUE ELSE arg.v

NoDir == [exists |-> FALSE, entries |-> {}]

IdleDelete ==
  [pc |-> "idle", recursive |-> TRUE, removed |-> FALSE, held |-> {},
   out |-> Return(FALSE, "", "none")]

InitDdir ==
  /\ EarlyIdle
  /\ WfileIdle /\ SuggIdle /\ TodoIdle /\ ConnIdle
  /\ ddir \in { [dir |-> [exists |-> TRUE, entries |-> e],
                 calls |-> [c \in DeleteSlots |-> IdleDelete]] :
                  e \in SUBSET EntryNames }

\* the handler starts and awaits fs.pathExists(dirPath); each slot carries
\* one invocation
DeleteRequest(c, recursive) ==
  /\ ddir.calls[c].pc = "idle"
  /\ ddir' = [ddir EXCEPT !.calls[c] =
       [IdleDelete EXCEPT !.pc = "exists", !.recursive = RecursiveOf(recursive)]]
  /\ UNCHANGED notDdir

\* pathExists answers
DeleteExists(c) ==
  /\ ddir.calls[c].pc = "exists"
  /\ ddir' = [ddir EXCEPT !.calls[c] =
       IF ~ddir.dir.exists
       THEN [@ EXCEPT !.pc = "done",
                      !.out = Return(TRUE, "Error: Directory does not exist.", "input")]
       ELSE [@ EXCEPT !.pc = IF ddir.calls[c].recursive THEN "remove" ELSE "readdir"]]
  /\ UNCHANGED notDdir

\* const files = await fs.readdir(dirPath); if (files.length > 0) return the error
DeleteReaddir(c) ==
  /\ ddir.calls[c].pc = "readdir"
  /\ ddir' = [ddir EXCEPT !.calls[c] =
       IF ~ddir.dir.exists
       THEN [@ EXCEPT !.pc = "done",
                      !.out = Return(TRUE, "Error deleting directory", "failed")]
       ELSE IF ddir.dir.entries # {}
       THEN [@ EXCEPT !.pc = "done",
                      !.out = Return(TRUE, "Error: Directory is not empty. Use recursive: true to delete it.",
                                     "input")]
       ELSE [@ EXCEPT !.pc = "remove"]]
  /\ UNCHANGED notDdir

\* fs.remove(dirPath): the directory and its contents
fsRemove(dir) == NoDir

\* await fs.remove(dirPath)
DeleteRemove(c, ok) ==
  /\ ddir.calls[c].pc = "remove"
  /\ ddir' = IF ok
             THEN [ddir EXCEPT !.dir = fsRemove(ddir.dir),
                     !.calls[c] = [@ EXCEPT !.pc = "done",
                                            !.removed = fsRemove(ddir.dir) # ddir.dir,
                                            !.held = ddir.dir.entries,
                                            !.out = Return(FALSE, "Successfully deleted directory",
                                                           "none")]]
             ELSE [ddir EXCEPT !.calls[c] =
                     [@ EXCEPT !.pc = "done",
                               !.out = Return(TRUE, "Error deleting directory", "failed")]]
  /\ UNCHANGED notDdir

\* another invocation writes a file into the directory: write-file makes the
\* directory when it is missing (fs.ensureDir) and then the file
WriteInto(name) ==
  /\ ddir' = [ddir EXCEPT !.dir = [exists |-> TRUE, entries |-> ddir.dir.entries \cup { name }]]
  /\ UNCHANGED notDdir

NextDdir ==
  \/ \E c \in DeleteSlots : \E recursive \in RecursiveArgs : DeleteRequest(c, recursive)
  \/ \E c \in DeleteSlots : DeleteExists(c)
  \/ \E c \in DeleteSlots : DeleteReaddir(c)
  \/ \E c \in DeleteSlots : \E ok \in BOOLEAN : DeleteRemove(c, ok)
  \/ \E name \in EntryNames : WriteInto(name)

SpecDdir == InitDdir /\ [][NextDdir]_vars

(***************************************************************************)
(* Properties                                                              *)
(***************************************************************************)
\* declarative reading of a schema over raw arguments: every present field
\* passes its checks and no required field is absent
RawSatisfies(schema, raw) ==
  \A k \in 1..Len(schema) :
    LET f == schema[k] IN
    IF Has(raw, f.name) THEN CheckField(f, raw[f.name]) = "ok"
    ELSE ~f.required

Resolved == inv.pc # "idle" /\ inv.def # NoDef

OneErrorFromDispatcher ==
  /\ Len(inv.delivered) = 1
  /\ inv.delivered[1].isError
  /\ inv.delivered[1].from = "dispatcher"

\* C1: a call whose arguments fail the tool's schema gets an Outcome with
\* isError = true and the handler body is never entered; whenever a handler
\* is about to run or running, its arguments satisfy its declared schema.
C1_InvalidNeverReachesHandler ==
  /\ (Resolved /\ ~RawSatisfies(SchemaOf(inv.def), inv.raw)) =>
       (~inv.entered /\ inv.pc = "done" /\ OneErrorFromDispatcher)
  /\ (Resolved /\ (inv.pc = "executing" \/ inv.entered)) =>
       Conforms(SchemaOf(inv.def), inv.args)

\* create-dir was called without dirPath and answered with a validation
\* error naming dirPath, the handler not entered
C1_Witness ==
  /\ inv.pc = "done" /\ inv.tool = "create-dir" /\ inv.raw = NoArgs
  /\ ~inv.entered
  /\ OneErrorFromDispatcher
  /\ inv.delivered[1].about = "dirPath"

\* C2: a call of a name that is not in the registry gets an Outcome with
\* isError = true that names the requested tool, and no handler is entered.
C2_UnknownToolIsError ==
  (inv.pc # "idle" /\ inv.tool \notin Registered(registry)) =>
    /\ ~inv.entered
    /\ inv.pc = "done"
    /\ OneErrorFromDispatcher
    /\ inv.delivered[1].about = inv.tool

\* does-not-exist was called and answered
C2_Witness ==
  /\ inv.pc = "done" /\ inv.tool = "does-not-exist"
  /\ OneErrorFromDispatcher
  /\ inv.delivered[1].about = "does-not-exist"

\* C3: one invocation delivers exactly one Outcome: never two, and exactly
\* one once the dispatch is over, also when several callbacks resolve.
C3_ExactlyOneOutcome ==
  /\ Len(inv.delivered) <= 1
  /\ inv.promise.jobs + Len(inv.delivered) <= 1
  /\ inv.pc = "done" => Len(inv.delivered) = 1

\* a child process emitted both 'error' and 'close' and one Outcome arrived
C3_Witness ==
  /\ inv.def = "registerExecuteCommandTool"
  /\ inv.fired = {"close", "error"}
  /\ inv.pc = "done"
  /\ Len(inv.delivered) = 1

\* C4: when a handler throws or its promise rejects, the process keeps
\* running and the dispatch ends with an Outcome that has isError = true
\* and carries the thrown message.
C4_ThrowBecomesErrorOutcome ==
  inv.promise.state = "rejected" =>
    /\ exitCode = -1 /\ phase = "listening"
    /\ inv.pc = "done" =>
         /\ Len(inv.delivered) = 1
         /\ inv.delivered[1].isError
         /\ inv.delivered[1].text = inv.promise.value.text

\* todo-list-tool rejected on an unreadable todo-list.json and the caller
\* got the error Outcome
C4_Witness ==
  /\ inv.def = "todoListTool"
  /\ inv.promise.state = "rejected"
  /\ inv.pc = "done"
  /\ inv.delivered = << FaultOutcome(Throw("Unexpected token in JSON")) >>
  /\ phase = "listening"

\* C5: for schema-valid input the handler itself resolves to an Outcome: no
\* exception of its external calls escapes the handler to the dispatcher.
C5_NoExceptionEscapesHandler ==
  inv.entered => inv.promise.state # "rejected"

\* C6: an invocation that did not carry out the requested operation (the
\* underlying command failed, or the operation or format is not implemented
\* or not recognised) never returns a success-shaped Outcome.
C6_FailureIsFlagged ==
  (inv.promise.state = "fulfilled"
     /\ inv.promise.value.fault \in {"failed", "unsupported"}) =>
    inv.promise.value.isError

NumberOf(kind, upTo) ==
  Cardinality({ k \in 1..NumEntries : k <= upTo /\ imports[k] = kind })

\* C7: bootstrap invokes each callable entry exactly once, skips each
\* non-callable entry with exactly one diagnostic, and when it returns the
\* registry holds exactly the tools of the callable entries.
C7_BootstrapCounts ==
  /\ \A k \in 1..NumEntries :
       /\ called[k] <= 1
       /\ imports[k] = "undefined" => called[k] = 0
       /\ (k < bootIdx /\ imports[k] = "function") => called[k] = 1
  /\ diagnostics = NumberOf("undefined", bootIdx - 1)
  /\ bootDone =>
       /\ \A k \in 1..NumEntries : called[k] = 1 <=> imports[k] = "function"
       /\ diagnostics = NumberOf("undefined", NumEntries)
       /\ Cardinality(Registered(registry)) = NumberOf("function", NumEntries)
       /\ Registered(registry) =
            { ToolOf(allToolFunctions[k]) : k \in { j \in 1..NumEntries : imports[j] = "function" } }

\* bootstrap returned over a list with exactly one entry that is not a
\* function: one diagnostic, every other tool registered
C7_Witness ==
  /\ bootDone
  /\ diagnostics = 1
  /\ Cardinality(Registered(registry)) = NumEntries - 1

\* C8: a registration function that misbehaves (is not callable, or raises)
\* does not stop bootstrap: the process does not abort, every later
\* registration function still runs.
C8_MisbehaviourDoesNotAbort ==
  /\ ~(phase = "exited" /\ ~bootDone)
  /\ bootDone => \A k \in 1..NumEntries : imports[k] = "function" => called[k] = 1

\* C9: once bootstrap has returned (and from the moment the server
\* listens) the registry never changes, and no invocation is accepted
\* before bootstrap has returned.
C9_RegistryReadOnlyAfterBootstrap ==
  [][ /\ (bootDone \/ phase = "listening") => registry' = registry
      /\ inv' # inv => bootDone ]_vars

\* a handler ran to completion while the server was listening
C9_Witness ==
  /\ phase = "listening" /\ bootDone
  /\ inv.pc = "done" /\ inv.entered

RECURSIVE LastDef(_, _, _)
LastDef(log, name, k) ==
  IF k = 0 THEN NoDef
  ELSE IF log[k][1] = name THEN log[k][2] ELSE LastDef(log, name, k - 1)

\* C10: after any sequence of register calls the registry maps each name to
\* the definition of the last register call made with that name; a second
\* registration of a name replaces the first.
C10_LastRegistrationWins ==
  \A n \in Names : registry[n] = LastDef(regLog, n, Len(regLog))

\* a name was registered twice with different definitions
C10_Witness ==
  \E i, j \in 1..Len(regLog) :
    /\ i < j
    /\ regLog[i][1] = regLog[j][1]
    /\ regLog[i][2] # regLog[j][2]
    /\ registry[regLog[j][1]] = regLog[j][2]

HandlerReached == inv.pc = "executing" \/ inv.entered

\* C11: for every schema field that declares a default, the handler gets
\* the declared default when the call omits the field and the supplied
\* value when the call supplies it.
C11_DefaultsReachHandler ==
  (Resolved /\ HandlerReached) =>
    \A k \in 1..Len(SchemaOf(inv.def)) :
      LET f == SchemaOf(inv.def)[k] IN
      f.default # None =>
        /\ Has(inv.args, f.name)
        /\ inv.args[f.name] =
             IF Has(inv.raw, f.name) THEN inv.raw[f.name] ELSE f.default

\* monitor-resources ran with include_processes supplied and max_processes
\* omitted: the handler saw true and the default 10
C11_Witness ==
  /\ inv.def = "registerMonitorResourcesTool" /\ inv.entered
  /\ inv.raw = [include_processes |-> Bool(TRUE)]
  /\ inv.args["include_processes"] = Bool(TRUE)
  /\ inv.args["max_processes"] = Num(10)
  /\ inv.args["detail_level"] = Str("basic")

\* a supplied number lies inside the declared range of its field
InRange(f, v) == (f.hasMin => v >= f.min) /\ (f.hasMax => v <= f.max)

NumbersSupplied(schema, raw) ==
  { k \in 1..Len(schema) :
      /\ schema[k].type = "number"
      /\ Has(raw, schema[k].name)
      /\ raw[schema[k].name].t = "number" }

\* everything a schema asks for apart from the ranges of its numbers
FineApartFromRanges(schema, raw) ==
  \A k \in 1..Len(schema) :
    LET f == schema[k] IN
    IF Has(raw, f.name)
    THEN /\ raw[f.name].t = f.type
         /\ f.members # {} => raw[f.name].v \in f.members
    ELSE ~f.required

\* C12: a supplied number below the minimum or above the maximum of its
\* field ends the call with a validation failure naming that field, the
\* handler not entered; numbers inside the range, the values min and max
\* included, pass and reach the handler unchanged.
C12_RangeEnforced ==
  (Resolved /\ FineApartFromRanges(SchemaOf(inv.def), inv.raw)) =>
    LET schema == SchemaOf(inv.def)
        outside == { k \in NumbersSupplied(schema, inv.raw) :
                       ~InRange(schema[k], inv.raw[schema[k].name].v) }
    IN
    IF outside # {}
    THEN /\ ~inv.entered /\ inv.pc = "done"
         /\ OneErrorFromDispatcher
         /\ \E k \in outside : inv.delivered[1].about = schema[k].name
    ELSE /\ HandlerReached
         /\ \A k \in NumbersSupplied(schema, inv.raw) :
              inv.args[schema[k].name] = inv.raw[schema[k].name]

\* quran-browser answered get_surah for surah_number 114, the maximum
C12_Witness ==
  /\ inv.def = "registerQuranBrowser" /\ inv.entered /\ inv.pc = "done"
  /\ Has(inv.raw, "surah_number")
  /\ inv.raw["surah_number"] = Num(114)
  /\ inv.args["surah_number"] = Num(114)
  /\ inv.delivered = << HandlerOutcome(Return(FALSE, "surah", "none")) >>

\* quran-browser refused limit 101, one above the maximum
C12_WitnessRefused ==
  /\ inv.tool = "quran-browser" /\ Resolved /\ inv.pc = "done"
  /\ Has(inv.raw, "limit") /\ inv.raw["limit"] = Num(101)
  /\ ~inv.entered
  /\ OneErrorFromDispatcher
  /\ inv.delivered[1].about = "limit"

OpenWatchers(p) ==
  { id \in 1..Len(fsWatchers) :
      fsWatchers[id].path = p /\ fsWatchers[id].state = "open" }

\* C13: a start call for a path whose normalized form already has an entry
\* in activeWatchers ends with an error Outcome and makes no watcher, in
\* whatever order the handlers of concurrent start and stop calls run; no
\* normalized path ever has two open watchers, and an entry of the map is
\* the one open watcher of its path.
C13_NoSecondWatcher ==
  /\ \A c \in WatchSlots :
       (/\ watchCalls[c].pc = "done"
        /\ Has(watchCalls[c].args, "action")
        /\ watchCalls[c].args["action"].v = "start"
        /\ watchCalls[c].had) =>
         (watchCalls[c].out.isError /\ watchCalls[c].made = 0)
  /\ \A p \in NormPaths :
       /\ Cardinality(OpenWatchers(p)) <= 1
       /\ activeWatchers[p] # 0 => OpenWatchers(p) = { activeWatchers[p] }

\* two calls were accepted together; the start of "a" made a watcher and the
\* start of "./a", the same normalized path, was refused
C13_Witness ==
  /\ watchCalls[1].pc = "done" /\ watchCalls[2].pc = "done"
  /\ watchCalls[1].raw = [action |-> Str("start"), target_path |-> Str("a"),
                          command |-> Str("c")]
  /\ watchCalls[2].raw = [action |-> Str("start"), target_path |-> Str("./a"),
                          command |-> Str("c")]
  /\ watchCalls[1].made # 0
  /\ watchCalls[2].had /\ watchCalls[2].out.isError /\ watchCalls[2].made = 0
  /\ Cardinality(OpenWatchers("/cwd/a")) = 1

\* C14: in create-dir, read-file and list-files, when the time limit
\* elapses before the wrapped operation settles the call ends with an
\* Outcome that has isError = true and carries the timeout message; the
\* race is never pending past the limit; and the race settles once, with
\* whichever of operation result, operation error or timer came first.
C14_TimeoutBecomesError ==
  /\ (timed.pc = "racing" /\ clock * 1000 > timed.timeoutMs) =>
       timed.outer.state # "pending"
  /\ timed.outer.jobs <= 1
  /\ (timed.pc \in {"racing", "done"} /\ timed.first # "none") =>
       /\ timed.outer.state = IF timed.first = "result" THEN "fulfilled" ELSE "rejected"
       /\ timed.first = "timer" =>
            timed.outer.value = Throw(timeoutMessage(timed.tool, timed.timeoutMs))
       /\ timed.first # "timer" => timed.outer.value \in OperationResults(timed.tool)
  /\ (timed.pc = "done" /\ timed.first = "timer") =>
       /\ timed.out.isError
       /\ timed.out.text[2] = timeoutMessage(timed.tool, timed.timeoutMs)
  /\ (timed.pc = "done" /\ timed.first = "error") => timed.out.isError
  /\ (timed.pc = "done" /\ timed.first = "result") => ~timed.out.isError

\* read-file ran into its 2 second limit, answered with the timeout error,
\* and the overtaken operation settled afterwards without effect
C14_Witness ==
  /\ timed.pc = "done" /\ timed.tool = "read-file"
  /\ timed.timeoutMs = 2000 /\ clock = 2
  /\ timed.first = "timer" /\ timed.op = "resolved"
  /\ timed.out.isError
  /\ timed.out.text[2].msg = "File reading operation timed out after"

\* C15: once an uncaught exception or an unhandled promise rejection has
\* occurred, the process has exited with status 1 and has handled no
\* request since.
C15_FaultEndsProcess ==
  proc.fault \in FaultKinds =>
    /\ phase = "exited"
    /\ exitCode = 1
    /\ proc.afterFault = 0

\* a background child failed to start after two requests were served: the
\* process is gone with status 1
C15_Witness ==
  /\ proc.fault = "uncaughtException"
  /\ proc.handlers /\ proc.at = "serving"
  /\ proc.served = 2
  /\ phase = "exited" /\ exitCode = 1

RunEnded == script.pc \in {"done", "exited"}

\* C16: within a run of start_server.sh, stable_build/dist and
\* .tools_hash_stable differ from what they were when the run began only
\* after wait_for_server has reported the candidate healthy; a run whose
\* candidate died or never answered /health leaves both as they were.
C16_PromotionOnlyAfterHealthy ==
  /\ (script.stable # script.stable0 \/ script.hashFile # script.hash0) =>
       script.healthy
  /\ script.healthFailed =>
       (script.stable = script.stable0 /\ script.hashFile = script.hash0)

\* a run over an existing stable build whose candidate failed the health
\* check has ended with the stable build and the hash untouched
C16_Witness ==
  /\ RunEnded /\ script.attempted /\ script.healthFailed
  /\ script.stable0 # NoBuild
  /\ script.stable = script.stable0 /\ script.hashFile = script.hash0
  /\ script.launched = script.stable0

\* a run promoted its healthy candidate over an older stable build
C16_WitnessPromoted ==
  /\ script.pc = "done" /\ script.healthy
  /\ script.stable0 # NoBuild /\ script.stable # script.stable0
  /\ script.hashFile = sha256sum(script.src.index)

\* C17: a run that attempted a new build and saw the build step or the
\* health check fail has, when it ends, discarded the candidate and started
\* the server from the previous stable build if there was one; it ends
\* without having started a server only if there was none.
C17_FailedBuildRollsBack ==
  (RunEnded /\ script.attempted /\ (script.buildFailed \/ script.healthFailed)) =>
    /\ ~script.tempDir
    /\ script.stable0 # NoBuild => script.launched = script.stable0
    /\ script.launched = NoBuild => script.stable0 = NoBuild

\* C18: the build step is skipped exactly when a stable build exists and
\* was compiled from the sources as they are now, every file under src
\* counted.
C18_SkipIffUnchanged ==
  (script.skipped \/ script.attempted) =>
    (script.skipped <=>
       (script.stable0 # NoBuild /\ script.stable0 = script.src))

\* C19: a call without timeout argument gets the time limit TIME_LIMIT
\* seconds (120 when the variable is unset), and no call gets a limit above
\* MAX_TIME_LIMIT seconds (600 when unset).
C19_LimitsFollowEnvironment ==
  limits.pc = "applied" =>
    /\ limits.applied.limited
    /\ limits.applied.ms <= MAX_TIME_LIMIT(limits.env) * 1000
    /\ limits.timeout = None =>
         limits.applied.ms = DEFAULT_TIME_LIMIT(limits.env) * 1000

\* C19 for the tools that use normalizeTimeout, with both variables unset
C19_HoldsWithDefaults ==
  (/\ limits.pc = "applied"
   /\ limits.tool \in TimedTools
   /\ limits.env = [TIME_LIMIT |-> "", MAX_TIME_LIMIT |-> ""]) =>
    /\ limits.applied.limited
    /\ limits.applied.ms <= 600000
    /\ limits.timeout = None => limits.applied.ms = 120000

\* C20: a copy-files or move-files call with overwrite false or absent that
\* finds the target present when it copies or moves leaves every file as it
\* was and ends with an error Outcome, whatever other invocations did
\* between its existence check and its operation.
C20_NoOverwriteUnderRaces ==
  \A c \in CopySlots :
    (copyCalls[c].ranOp /\ ~copyCalls[c].overwrite /\ copyCalls[c].sawTarget # 0) =>
      /\ ~copyCalls[c].changed
      /\ copyCalls[c].pc = "done" => copyCalls[c].out.isError

\* C20, the part the code keeps: without overwrite no call ever replaces or
\* changes a target that is present when it copies or moves.
C20_TargetNeverReplaced ==
  \A c \in CopySlots :
    (copyCalls[c].ranOp /\ ~copyCalls[c].overwrite /\ copyCalls[c].sawTarget # 0) =>
      ~copyCalls[c].changed

WriteSucceeded == wfile.call.pc = "done" /\ ~wfile.call.out.isError

ContentAsModeSays ==
  /\ wfile.call.mode \in { "a", "ab" } =>
       wfile.file.data = wfile.call.prev \o wfile.call.content
  /\ wfile.call.mode \in { "w", "wb" } => wfile.file.data = wfile.call.content

\* C21: after a successful write-file the file holds the previous content
\* followed by the supplied content for the modes 'a' and 'ab', and exactly
\* the supplied content for 'w' and 'wb', with atomic true as with false.
C21_ModeDecidesContent == WriteSucceeded => ContentAsModeSays

\* C21, the part the code keeps: a successful write-file that is not atomic
\* leaves the content its mode calls for.
C21_HoldsWithoutAtomic ==
  (WriteSucceeded /\ ~wfile.call.atomic) => ContentAsModeSays

SuggAnswered == sugg.pc = "done" /\ ~sugg.out.isError

\* C22: code-suggestions never reports more suggestions than
\* max_suggestions: the total and the number listed are at most
\* max_suggestions.
C22_AtMostMaxSuggestions ==
  SuggAnswered => (sugg.total <= sugg.max /\ sugg.listed <= sugg.max)

\* C22, the part the code keeps: the report exceeds max_suggestions by less
\* than the suggestions one line can raise, and lists as many as it counts.
C22_OvershootWithinOneLine ==
  SuggAnswered =>
    /\ sugg.listed = sugg.total
    /\ sugg.total < (IF sugg.max > 0 THEN sugg.max ELSE 1) + Cardinality(Markers)

WatcherIds == 1..Len(fsWatchers)

\* the entry of a path leaves the map only when its watcher is no longer open
EntryLeavesWhenClosed ==
  \A p \in NormPaths :
    (activeWatchers[p] # 0 /\ activeWatchers'[p] # activeWatchers[p]) =>
      fsWatchers'[activeWatchers[p]].state # "open"

DistinctIds(tasks) ==
  \A i, j \in 1..Len(tasks) : i # j => tasks[i].id # tasks[j].id

\* C24: after any sequence of create_project, switch_project, add_task,
\* remove_task and complete_task the tasks of each project have pairwise
\* distinct ids.
C24_TaskIdsDistinct ==
  \A k \in 1..Len(todo.file.projects) : DistinctIds(todo.file.projects[k].tasks)

\* C24, the part the code keeps: as long as no remove_task is called the ids
\* of each project are pairwise distinct.
C24_DistinctWithoutRemoval ==
  (\A c \in TodoSlots : todo.calls[c].params.operation # "remove_task") =>
    \A k \in 1..Len(todo.file.projects) : DistinctIds(todo.file.projects[k].tasks)

TodoSucceeded(c) == todo.calls[c].pc = "done" /\ ~todo.calls[c].out.isError

\* the change a successful call made is in the file
ChangePresent(c) ==
  LET call == todo.calls[c]
      f == todo.file
      k == findProject(f, call.project)
  IN
  CASE call.params.operation = "create_project" ->
         findProject(f, call.params.project_name) # 0
    [] call.params.operation = "switch_project" ->
         f.current_project = call.params.project_name
    [] call.params.operation = "add_task" ->
         k # 0 /\ \E i \in 1..Len(f.projects[k].tasks) :
                    f.projects[k].tasks[i].text = call.params.task
    [] call.params.operation = "complete_task" ->
         k # 0 /\ \E i \in 1..Len(f.projects[k].tasks) :
                    /\ f.projects[k].tasks[i].id = parseTaskId(call.params.task_id)
                    /\ f.projects[k].tasks[i].completed
    [] OTHER -> TRUE

\* a successful call of the other slot whose own change replaces this one in
\* any order of the two: a removal of tasks, or another switch
Supersedes(d, c) ==
  /\ d # c
  /\ TodoSucceeded(d)
  /\ \/ todo.calls[d].params.operation = "remove_task"
     \/ /\ todo.calls[d].params.operation = "switch_project"
        /\ todo.calls[c].params.operation = "switch_project"

\* C25: once all invocations in flight have completed, the change of every
\* one that returned a success Outcome is in todo-list.json: no successful
\* add_task, create_project, complete_task or switch_project is lost to the
\* interleaving of the reads and writes of the file.
C25_NoLostUpdate ==
  (\A c \in TodoSlots : todo.calls[c].pc \in { "idle", "done" }) =>
    \A c \in TodoSlots :
      TodoSucceeded(c) => (ChangePresent(c) \/ \E d \in TodoSlots : Supersedes(d, c))

ConnReturned == conn.pc = "done" /\ conn.db # "none"

ClosedOnce == conn.db = "closed" /\ conn.closeCalls = 1

\* C26: an invocation of query-sqlite or knowledge-base-manager that opened
\* a connection has closed it exactly once when it returns its Outcome, on
\* every path: none leaves it open and none closes it twice.
C26_ConnectionClosedOnce == ConnReturned => ClosedOnce

\* C26, the part the code keeps: a call that returns a success Outcome, or
\* an early return other than that of restore, has closed its connection
\* exactly once.
C26_ClosedOnOrdinaryPaths ==
  (/\ ConnReturned
   /\ \/ ~conn.out.isError
      \/ conn.out.fault = "input" /\ conn.call.op # "restore") => ClosedOnce

\* C27: delete-dir with recursive = false never removes a directory that
\* holds entries at the moment of the removal, whatever other invocations
\* wrote into it between the emptiness check and the removal.
C27_NeverRemovesNonEmpty ==
  \A c \in DeleteSlots :
    (ddir.calls[c].removed /\ ~ddir.calls[c].recursive) => ddir.calls[c].held = {}

RefusesNonEmpty(c) ==
  /\ ddir.calls[c].pc = "readdir"
  /\ ddir'.calls[c].pc = "done"
  /\ ddir'.calls[c].out.fault = "input"

\* C27, the part the code keeps: the step that returns the non-empty error
\* leaves the directory and its contents as they were.
C27_RefusalChangesNothing ==
  [][\A c \in DeleteSlots : RefusesNonEmpty(c) => ddir'.dir = ddir.dir]_vars

====
